---- MODULE Spec2Model ----
(***************************************************************************)
(* BQL query pipeline: the editor's diagnostics dispatch (QueryEditor.tsx), *)
(* the AST builder with macro expansion (analysis.ts) and the backend       *)
(* engine (DefaultQueryAstEngine.kt, SemanticValidator.kt).                 *)
(***************************************************************************)
EXTENDS Integers, Sequences, FiniteSets, TLC

VARIABLES
    \* ---- QueryEditor.tsx ----
    doc,              \* the text of the latest analysis pass (view.state.doc)
    hasValidate,      \* latestPropsRef.current.callbacks?.validateSemantics is set
    semanticSeq,      \* semanticSeq.current
    debounceTimerRef, \* debounceTimerRef.current: a timer id, 0 for null
    nextTimerId,      \* the id window.setTimeout hands out next
    timers,           \* the host's pending timers, each with its closure
    inflight,         \* validateSemantics calls awaiting their promise
    delivered,        \* the last call of onDiagnosticsChange
    now,              \* the host clock, in milliseconds
    lastChange,       \* the clock at the latest document change
    \* ---- analysis.ts: one call of analyzeQuery(input, options) ----
    phase,            \* "ready", "build" (inside buildAstFromQuery) or "done"
    querySource,      \* the source passed as input
    languageSpec,     \* options.languageSpec
    macroAliases,     \* context.macroAliases
    buildInput,       \* the text the current buildExpression slices
    buildContext,     \* context.macroStack and context.macroDepth
    mode,             \* "eval": control is a syntax node; "return": an AST node
    control,
    kont,             \* the pending callers of buildExpression, innermost first
    result,           \* the QueryAnalysis returned
    \* ---- DefaultQueryAstEngine.kt: one call of an operation ----
    enginePc,         \* "ready", the stage compile is at, or "done"
    engineCeilings,   \* the constructor's properties
    request,          \* the operation called and its arguments
    structure,        \* compile's local of the name
    semantics,        \* compile's local of the name
    lowered,          \* the roots passed to irCompiler.compile
    engineResult,     \* the value returned
    \* ---- completion.ts: one call of the completion source ----
    completionPc,     \* "ready", "awaiting" (config.complete pending) or "done"
    completionConfig, \* the config createCompletionSource was given
    completionContext,\* the query and the cursor position of the call
    staticItems,      \* the local of the name
    completionResult, \* the CompletionResult returned, or Null
    \* ---- completion-syntax.ts: one call of inferCompletionSyntaxContext ----
    syntaxPc,         \* "ready" or "done"
    syntaxArgs,       \* args: the source (state and query) and pos
    syntaxContext     \* the CompletionSyntaxContext returned

editorVars == <<doc, hasValidate, semanticSeq, debounceTimerRef, nextTimerId,
                timers, inflight, delivered, now, lastChange>>

buildVars == <<phase, querySource, languageSpec, macroAliases, buildInput,
               buildContext, mode,
               control, kont, result>>

engineVars == <<enginePc, engineCeilings, request, structure, semantics, lowered,
                engineResult>>

completionVars == <<completionPc, completionConfig, completionContext, staticItems,
                    completionResult>>

classifierVars == <<syntaxPc, syntaxArgs, syntaxContext>>

vars == <<editorVars, buildVars, engineVars, completionVars, classifierVars>>

(***************************************************************************)
(* Text. A text is a sequence of characters; offsets count from 0, so the  *)
(* slice [from, to) is SubSeq(text, from + 1, to).                         *)
(***************************************************************************)
Chr(c) == <<c>>

W_status == <<"s", "t", "a", "t", "u", "s">>
W_archived == <<"a", "r", "c", "h", "i", "v", "e", "d">>
W_unknown == <<"u", "n", "k", "n", "o", "w", "n">>
W_count == <<"c", "o", "u", "n", "t">>
W_eq == <<"=">>
W_IN == <<"I", "N">>
W_NOT == <<"N", "O", "T">>
W_AND == <<"A", "N", "D">>
W_OR == <<"O", "R">>
W_NOT_IN == <<"N", "O", "T", " ", "I", "N">>
W_NOT__IN == <<"N", "O", "T", " ", " ", "I", "N">>
W_true == <<"t", "r", "u", "e">>
W_false == <<"f", "a", "l", "s", "e">>
W_5 == <<"5">>
W_qOpen == <<"\"", "O", "p", "e", "n", "\"">>
W_qClosed == <<"\"", "C", "l", "o", "s", "e", "d", "\"">>
W_qEsc == <<"\"", "a", "\\", "\"", "b", "\"">>
W_Open == <<"O", "p", "e", "n">>
W_Closed == <<"C", "l", "o", "s", "e", "d">>
W_lezer == <<"l", "e", "z", "e", "r">>
W_1 == <<"1">>

DigitChar == <<"0", "1", "2", "3", "4", "5", "6", "7", "8", "9">>

\* The decimal digits of i, 0 <= i <= 99.
Digits(i) ==
    IF i < 10 THEN <<DigitChar[i + 1]>>
    ELSE <<DigitChar[(i \div 10) + 1], DigitChar[(i % 10) + 1]>>

\* The alias name m<i> of the test suite's chains (buildDeepMacroChain).
MacroName(i) == <<"m">> \o Digits(i)

IsWhitespace(c) == c \in {" ", "\t", "\n"}

slice(text, from, to) == SubSeq(text, from + 1, to)

RECURSIVE TrimStart(_)
TrimStart(s) ==
    IF s # <<>> /\ IsWhitespace(Head(s)) THEN TrimStart(Tail(s)) ELSE s

RECURSIVE TrimEnd(_)
TrimEnd(s) ==
    IF s # <<>> /\ IsWhitespace(s[Len(s)]) THEN TrimEnd(SubSeq(s, 1, Len(s) - 1)) ELSE s

trim(s) == TrimEnd(TrimStart(s))

\* value.replace(/\s+/g, " "): each run of whitespace becomes one space.
RECURSIVE CollapseSpace(_)
CollapseSpace(s) ==
    IF s = <<>> THEN <<>>
    ELSE IF IsWhitespace(Head(s))
         THEN <<" ">> \o CollapseSpace(TrimStart(s))
         ELSE <<Head(s)>> \o CollapseSpace(Tail(s))

normalizeSpace(value) == trim(CollapseSpace(value))

\* s.replace(/\\"/g, '"'): each backslash-quote pair becomes a quote.
RECURSIVE ReplaceEscapedQuote(_)
ReplaceEscapedQuote(s) ==
    IF Len(s) < 2 THEN s
    ELSE IF s[1] = "\\" /\ s[2] = "\""
         THEN <<"\"">> \o ReplaceEscapedQuote(SubSeq(s, 3, Len(s)))
         ELSE <<s[1]>> \o ReplaceEscapedQuote(Tail(s))

\* s.replace(/\\\\/g, "\\"): each pair of backslashes becomes one.
RECURSIVE ReplaceEscapedBackslash(_)
ReplaceEscapedBackslash(s) ==
    IF Len(s) < 2 THEN s
    ELSE IF s[1] = "\\" /\ s[2] = "\\"
         THEN <<"\\">> \o ReplaceEscapedBackslash(SubSeq(s, 3, Len(s)))
         ELSE <<s[1]>> \o ReplaceEscapedBackslash(Tail(s))

unquoteString(raw) ==
    IF Len(raw) < 2 THEN raw
    ELSE ReplaceEscapedBackslash(ReplaceEscapedQuote(SubSeq(raw, 2, Len(raw) - 1)))

\* Number(raw) for a run of decimal digits.
DigitValue(c) == CHOOSE d \in 0..9 : DigitChar[d + 1] = c

RECURSIVE ParseNumber(_)
ParseNumber(raw) ==
    IF raw = <<>> THEN 0
    ELSE ParseNumber(SubSeq(raw, 1, Len(raw) - 1)) * 10 + DigitValue(raw[Len(raw)])

(***************************************************************************)
(* The concrete syntax tree of the grammar-based parser. A source is       *)
(* written as a term; laying the term out gives the text and the tree with *)
(* the offsets of every node, as the parser would return them for the text.*)
(***************************************************************************)
Tok(name, chars) == [n |-> name, tok |-> chars, kids |-> <<>>, sp |-> TRUE]
Node(name, kids) == [n |-> name, tok |-> <<>>, kids |-> kids, sp |-> TRUE]
Glued(term) == [term EXCEPT !.sp = FALSE]

ErrorNodeName == "ERROR"

Span(from, to) == [from |-> from, to |-> to]

RECURSIVE Layout(_, _)
RECURSIVE LayoutKids(_, _, _, _, _)

\* Lays out kids[i..] from offset `at`; nodes and text are what is laid out
\* so far. A kid after the first is preceded by one space unless glued.
LayoutKids(kids, i, at, nodes, text) ==
    IF i > Len(kids) THEN [nodes |-> nodes, text |-> text]
    ELSE LET gap == IF i > 1 /\ kids[i].sp THEN <<" ">> ELSE <<>>
             laid == Layout(kids[i], at + Len(gap))
         IN  LayoutKids(kids, i + 1, at + Len(gap) + Len(laid.text),
                        Append(nodes, laid.node), text \o gap \o laid.text)

Layout(term, at) ==
    IF term.kids = <<>>
    THEN [node |-> [name |-> term.n, from |-> at, to |-> at + Len(term.tok),
                    children |-> <<>>],
          text |-> term.tok]
    ELSE LET laid == LayoutKids(term.kids, 1, at, <<>>, <<>>)
         IN  [node |-> [name |-> term.n, from |-> at, to |-> at + Len(laid.text),
                        children |-> laid.nodes],
              text |-> laid.text]

\* A source: a text together with the tree the parser returns for it: the
\* layout of the term, followed by text the parser could not consume.
Source(term, trailing) ==
    LET laid == Layout(term, 0)
    IN  [text |-> laid.text \o trailing, topNode |-> laid.node]

TextOfSource(src) == src.text

\* bqlParser.parse(text).topNode
parse(src) == src.topNode

\* SyntaxNode.getChildren(name)
getChildren(node, name) ==
    SelectSeq(node.children, LAMBDA c : c.name = name)

HasChild(node, name) == getChildren(node, name) # <<>>

\* SyntaxNode.getChild(name), for a node that has such a child
getChild(node, name) == Head(getChildren(node, name))

spanOf(node) == Span(node.from, node.to)

textOf(node, input) == slice(input, node.from, node.to)

Max(a, b) == IF a >= b THEN a ELSE b

\* The element of a singleton. A value bound by {e : x \in {v}} is computed
\* once, where a value named by LET is computed again at each use when TLC
\* evaluates ENABLED.
Only(singleton) == CHOOSE x \in singleton : TRUE

(***************************************************************************)
(* Diagnostics (types.ts QueryDiagnostic).                                 *)
(***************************************************************************)
QueryDiagnostic(severity, code, message, from, to, source) ==
    [severity |-> severity, code |-> code, message |-> message,
     from |-> from, to |-> to, source |-> source]

\* visit(node, fn) with the fn of collectSyntaxDiagnostics: the error nodes
\* in document order, each as a SYNTAX_ERROR diagnostic.
RECURSIVE visitErrors(_)
RECURSIVE visitChildren(_, _)

visitChildren(children, i) ==
    IF i > Len(children) THEN <<>>
    ELSE visitErrors(children[i]) \o visitChildren(children, i + 1)

visitErrors(node) ==
    (IF node.name = ErrorNodeName
     THEN <<QueryDiagnostic("error", "SYNTAX_ERROR", <<>>, node.from,
                            Max(node.from + 1, node.to), "syntax")>>
     ELSE <<>>) \o visitChildren(node.children, 1)

\* [...diagnostics].sort((a, b) => a.from - b.from || a.to - b.to), stable.
DiagBefore(a, b) == a.from < b.from \/ (a.from = b.from /\ a.to < b.to)

RECURSIVE InsertSorted(_, _)
InsertSorted(sorted, d) ==
    IF sorted = <<>> THEN <<d>>
    ELSE IF DiagBefore(d, Head(sorted)) THEN <<d>> \o sorted
         ELSE <<Head(sorted)>> \o InsertSorted(Tail(sorted), d)

RECURSIVE SortDiagnostics(_)
SortDiagnostics(ds) ==
    IF ds = <<>> THEN <<>>
    ELSE Only({InsertSorted(sorted, ds[Len(ds)]) :
                 sorted \in {SortDiagnostics(SubSeq(ds, 1, Len(ds) - 1))}})

\* Mutant of the merge loop: a diagnostic that starts where the last one ends
\* is kept apart.
RECURSIVE MergeInto_Strict(_, _)
MergeInto_Strict(merged, rest) ==
    IF rest = <<>> THEN merged
    ELSE LET d == Head(rest)
             n == Len(merged)
         IN  Only({MergeInto_Strict(next, Tail(rest)) :
                     next \in {IF n > 0 /\ d.from < merged[n].to
                               THEN [merged EXCEPT ![n].to = Max(merged[n].to, d.to)]
                               ELSE Append(merged, d)}})

RECURSIVE MergeInto(_, _)
MergeInto(merged, rest) ==
    IF rest = <<>> THEN merged
    ELSE LET d == Head(rest)
             n == Len(merged)
         IN  Only({MergeInto(next, Tail(rest)) :
                     next \in {IF n > 0 /\ d.from <= merged[n].to
                               THEN [merged EXCEPT ![n].to = Max(merged[n].to, d.to)]
                               ELSE Append(merged, d)}})

mergeOverlappingDiagnostics(diagnostics) ==
    Only({MergeInto(<<>>, sorted) : sorted \in {SortDiagnostics(diagnostics)}})

collectSyntaxDiagnostics(node, input) ==
    mergeOverlappingDiagnostics(
        visitErrors(node) \o
        (IF node.to < Len(input)
         THEN <<QueryDiagnostic("error", "UNPARSED_TRAILING_INPUT", <<>>, node.to,
                                Len(input), "syntax")>>
         ELSE <<>>))

(***************************************************************************)
(* The AST (types.ts) and the errors the builder throws (analysis.ts).     *)
(***************************************************************************)
MAX_MACRO_EXPANSION_DEPTH == 10

NullAst == [null |-> TRUE]

\* options.languageSpec when the caller passes none
Undefined == [undefined |-> TRUE]

AstBuildDiagnosticError(diagnosticCode, message, span) ==
    [thrown |-> "AstBuildDiagnosticError", diagnosticCode |-> diagnosticCode,
     message |-> message, span |-> span]

Error(message) == [thrown |-> "Error", message |-> message]

IsThrown(r) == "thrown" \in DOMAIN r

\* The first element of a sequence of results that is a thrown error.
FirstThrown(rs) ==
    rs[CHOOSE i \in 1..Len(rs) :
          IsThrown(rs[i]) /\ \A j \in 1..(i - 1) : ~IsThrown(rs[j])]

AnyThrown(rs) == \E i \in 1..Len(rs) : IsThrown(rs[i])

expectChild(node, names) ==
    LET found == SelectSeq(names, LAMBDA name : HasChild(node, name))
    IN  IF found # <<>> THEN getChild(node, Head(found))
        ELSE Error(<<"Expected child">>)

buildScalarValue(node, input) ==
    IF node.children = <<>> THEN Error(<<"ScalarValue missing child">>)
    ELSE LET child == Head(node.children)
             raw == textOf(child, input)
         IN  CASE child.name = "String" ->
                    [kind |-> "stringLiteral", value |-> unquoteString(raw),
                     span |-> spanOf(child)]
               [] child.name = "Number" ->
                    \* a run of digits is always finite
                    [kind |-> "numberLiteral", value |-> ParseNumber(raw), raw |-> raw,
                     span |-> spanOf(child)]
               [] child.name = "Boolean" ->
                    [kind |-> "booleanLiteral", value |-> (raw = W_true),
                     span |-> spanOf(child)]
               [] OTHER -> Error(<<"Unsupported scalar child">>)

buildListValue(node, input) ==
    LET listItems == getChildren(node, "ListItem")
        scalars == [i \in 1..Len(listItems) |->
                      expectChild(listItems[i], <<"ScalarValue">>)]
        items == [i \in 1..Len(listItems) |->
                    IF IsThrown(scalars[i]) THEN scalars[i]
                    ELSE buildScalarValue(scalars[i], input)]
    IN  IF AnyThrown(items) THEN FirstThrown(items)
        ELSE [kind |-> "list", items |-> items, span |-> spanOf(node)]

\* context.languageSpec.fields.find((field) => field.name === fieldName)?.type
FieldTypeOf(spec, fieldName) ==
    LET found == SelectSeq(spec.fields, LAMBDA field : field.name = fieldName)
    IN  IF found = <<>> THEN "undefined" ELSE Head(found).type

\* Mutant of ShorthandAllowed: any declared field may be written bare.
ShorthandAllowed_AnyDeclared(spec, fieldName) == FieldTypeOf(spec, fieldName) # "undefined"

\* The bare field reference is a comparison with true for a boolean field only.
ShorthandAllowed(spec, fieldName) == FieldTypeOf(spec, fieldName) = "boolean"

\* case "Comparison" of buildExpression
buildComparison(node, input, spec) ==
    LET fieldNode == expectChild(node, <<"Field">>)
        identifier == expectChild(fieldNode, <<"Identifier">>)
        fieldName == textOf(identifier, input)
        fieldRef == [kind |-> "fieldRef", name |-> fieldName, span |-> spanOf(fieldNode)]
    IN  IF IsThrown(fieldNode) THEN fieldNode
        ELSE IF IsThrown(identifier) THEN identifier
        ELSE IF HasChild(node, "CompareOperator")
        THEN LET scalar == expectChild(node, <<"ScalarValue">>)
                 value == IF IsThrown(scalar) THEN scalar ELSE buildScalarValue(scalar, input)
             IN  IF IsThrown(value) THEN value
                 ELSE [kind |-> "comparison", field |-> fieldRef,
                       operator |-> trim(textOf(getChild(node, "CompareOperator"), input)),
                       value |-> value, span |-> spanOf(node)]
        ELSE IF HasChild(node, "InOperator")
        THEN LET listLiteral == expectChild(node, <<"ListLiteral">>)
                 value == IF IsThrown(listLiteral) THEN listLiteral
                          ELSE buildListValue(listLiteral, input)
             IN  IF IsThrown(value) THEN value
                 ELSE [kind |-> "comparison", field |-> fieldRef,
                       operator |-> normalizeSpace(textOf(getChild(node, "InOperator"), input)),
                       value |-> value, span |-> spanOf(node)]
        ELSE IF ~ShorthandAllowed(spec, fieldName)
        THEN AstBuildDiagnosticError("INVALID_BOOLEAN_FIELD_SHORTHAND", <<fieldName>>,
                                     spanOf(fieldNode))
        ELSE [kind |-> "comparison", field |-> fieldRef, operator |-> W_eq,
              value |-> [kind |-> "booleanLiteral", value |-> TRUE,
                         span |-> spanOf(fieldNode)],
              span |-> spanOf(node)]

\* Mutant of the loop of foldLogical: the new term becomes the left operand.
RECURSIVE FoldFrom_Swapped(_, _, _, _, _)
FoldFrom_Swapped(node, terms, i, current, operator) ==
    IF i > Len(terms) THEN current
    ELSE FoldFrom_Swapped(node, terms, i + 1,
                          [kind |-> "logical", operator |-> operator, left |-> terms[i],
                           right |-> current, span |-> spanOf(node)],
                          operator)

\* The loop of foldLogical: terms[i..] folded onto current.
RECURSIVE FoldFrom(_, _, _, _, _)
FoldFrom(node, terms, i, current, operator) ==
    IF i > Len(terms) THEN current
    ELSE FoldFrom(node, terms, i + 1,
                  [kind |-> "logical", operator |-> operator, left |-> current,
                   right |-> terms[i], span |-> spanOf(node)],
                  operator)

foldLogical(node, terms, operator) ==
    IF Len(terms) = 0 THEN Error(<<"Missing terms">>)
    ELSE FoldFrom(node, terms, 2, terms[1], operator)

\* Mutant of remapValueSpans: the items of a list keep their spans.
remapValueSpans_KeepItems(value, span) == [value EXCEPT !.span = span]

remapValueSpans(value, span) ==
    IF value.kind = "list"
    THEN [value EXCEPT !.span = span,
                       !.items = [i \in 1..Len(value.items) |->
                                    [value.items[i] EXCEPT !.span = span]]]
    ELSE [value EXCEPT !.span = span]

\* Mutant of remapQueryAstSpans: only the root of the expansion is remapped.
remapQueryAstSpans_RootOnly(node, span) == [node EXCEPT !.span = span]

RECURSIVE remapQueryAstSpans(_, _)
remapQueryAstSpans(node, span) ==
    CASE node.kind = "comparison" ->
           [node EXCEPT !.span = span,
                        !.field = [node.field EXCEPT !.span = span],
                        !.value = remapValueSpans(node.value, span)]
      [] node.kind = "logical" ->
           [node EXCEPT !.span = span,
                        !.left = remapQueryAstSpans(node.left, span),
                        !.right = remapQueryAstSpans(node.right, span)]
      [] node.kind = "not" ->
           [node EXCEPT !.span = span,
                        !.expression = remapQueryAstSpans(node.expression, span)]

\* computeAstStats: the walk's nodeCount and maxDepth below a node at `depth`
RECURSIVE StatsWalk(_, _)
RECURSIVE StatsWalkItems(_, _, _)

StatsWalkItems(items, i, depth) ==
    IF i > Len(items) THEN [nodeCount |-> 0, maxDepth |-> 0]
    ELSE Only({[nodeCount |-> a.nodeCount + b.nodeCount,
                maxDepth |-> Max(a.maxDepth, b.maxDepth)] :
                  a \in {StatsWalk(items[i], depth)},
                  b \in {StatsWalkItems(items, i + 1, depth)}})

StatsWalk(node, depth) ==
    Only({[nodeCount |-> 1 + below.nodeCount, maxDepth |-> Max(depth, below.maxDepth)] :
            below \in
              {CASE node.kind = "logical" ->
                      StatsWalkItems(<<node.left, node.right>>, 1, depth + 1)
                 [] node.kind = "not" -> StatsWalk(node.expression, depth + 1)
                 [] node.kind = "comparison" -> StatsWalk(node.value, depth + 1)
                 [] node.kind = "list" -> StatsWalkItems(node.items, 1, depth + 1)
                 [] OTHER -> [nodeCount |-> 0, maxDepth |-> 0]}})

computeAstStats(root) == StatsWalk(root, 1)

\* buildMacroAliasIndex: the map from alias name to alias, or the error
\* thrown at the first name met twice.
\* Mutant of buildMacroAliasIndex's loop: a name met twice keeps the last
\* alias, as Map.set alone would.
RECURSIVE AliasIndexFrom_LastWins(_, _, _, _)
AliasIndexFrom_LastWins(functions, i, aliases, inputLength) ==
    IF i > Len(functions) THEN [aliases |-> aliases]
    ELSE AliasIndexFrom_LastWins(functions, i + 1,
                                 [n \in DOMAIN aliases \cup {functions[i].name} |->
                                    IF n = functions[i].name THEN functions[i]
                                    ELSE aliases[n]],
                                 inputLength)

RECURSIVE AliasIndexFrom(_, _, _, _)
AliasIndexFrom(functions, i, aliases, inputLength) ==
    IF i > Len(functions) THEN [aliases |-> aliases]
    ELSE IF functions[i].name \in DOMAIN aliases
    THEN AstBuildDiagnosticError("DUPLICATE_MACRO_ALIAS", <<functions[i].name>>,
                                 Span(0, Max(1, inputLength)))
    ELSE AliasIndexFrom(functions, i + 1,
                        [n \in DOMAIN aliases \cup {functions[i].name} |->
                           IF n = functions[i].name THEN functions[i] ELSE aliases[n]],
                        inputLength)

NoAliases == [n \in {} |-> Undefined]

buildMacroAliasIndex(spec, inputText) ==
    IF spec = Undefined THEN Error(<<"TypeError">>)
    ELSE AliasIndexFrom(spec.functions, 1, NoAliases, Len(inputText))

(***************************************************************************)
(* expandMacroAlias, up to its recursive call of buildAstFromQuery.        *)
(***************************************************************************)
Range(seq) == {seq[i] : i \in 1..Len(seq)}

\* Mutants of MacroCallCheck: no depth ceiling; the ceiling checked before
\* the cycle; the ceiling one too high.
MacroCallCheck_NoCeiling(name, ctx, aliases) ==
    IF name \notin DOMAIN aliases THEN "UNKNOWN_MACRO_ALIAS"
    ELSE IF name \in Range(ctx.macroStack) THEN "MACRO_EXPANSION_CYCLE"
    ELSE IF collectSyntaxDiagnostics(parse(aliases[name].expansion),
                                     TextOfSource(aliases[name].expansion)) # <<>>
    THEN "INVALID_MACRO_EXPANSION"
    ELSE "expand"

MacroCallCheck_CeilingFirst(name, ctx, aliases) ==
    IF name \notin DOMAIN aliases THEN "UNKNOWN_MACRO_ALIAS"
    ELSE IF ctx.macroDepth >= MAX_MACRO_EXPANSION_DEPTH THEN "MACRO_EXPANSION_DEPTH_EXCEEDED"
    ELSE IF name \in Range(ctx.macroStack) THEN "MACRO_EXPANSION_CYCLE"
    ELSE IF collectSyntaxDiagnostics(parse(aliases[name].expansion),
                                     TextOfSource(aliases[name].expansion)) # <<>>
    THEN "INVALID_MACRO_EXPANSION"
    ELSE "expand"

MacroCallCheck_CeilingOff(name, ctx, aliases) ==
    IF name \notin DOMAIN aliases THEN "UNKNOWN_MACRO_ALIAS"
    ELSE IF name \in Range(ctx.macroStack) THEN "MACRO_EXPANSION_CYCLE"
    ELSE IF ctx.macroDepth > MAX_MACRO_EXPANSION_DEPTH THEN "MACRO_EXPANSION_DEPTH_EXCEEDED"
    ELSE IF collectSyntaxDiagnostics(parse(aliases[name].expansion),
                                     TextOfSource(aliases[name].expansion)) # <<>>
    THEN "INVALID_MACRO_EXPANSION"
    ELSE "expand"

\* The checks made before recursing, in the order the code makes them: the
\* code of the error thrown, or "expand".
MacroCallCheck(name, ctx, aliases) ==
    IF name \notin DOMAIN aliases THEN "UNKNOWN_MACRO_ALIAS"
    ELSE IF name \in Range(ctx.macroStack) THEN "MACRO_EXPANSION_CYCLE"
    ELSE IF ctx.macroDepth >= MAX_MACRO_EXPANSION_DEPTH THEN "MACRO_EXPANSION_DEPTH_EXCEEDED"
    ELSE IF collectSyntaxDiagnostics(parse(aliases[name].expansion),
                                     TextOfSource(aliases[name].expansion)) # <<>>
    THEN "INVALID_MACRO_EXPANSION"
    ELSE "expand"

\* The first lines of buildAstFromQuery: the node handed to buildExpression.
QueryExpression(queryNode) ==
    IF HasChild(queryNode, "Expression") THEN getChild(queryNode, "Expression")
    ELSE IF queryNode.children # <<>> THEN Head(queryNode.children)
    ELSE Error(<<"Missing Expression node">>)

\* The context of the recursive call.
ExpansionContext(ctx, name) ==
    [macroStack |-> Append(ctx.macroStack, name), macroDepth |-> ctx.macroDepth + 1]

expandMacroAlias(node, inputText, ctx, aliases) ==
    LET macroSpan == spanOf(node)
        identifier == expectChild(node, <<"Identifier">>)
        name == textOf(identifier, inputText)
        check == MacroCallCheck(name, ctx, aliases)
    IN  IF IsThrown(identifier) THEN identifier
        ELSE IF check = "MACRO_EXPANSION_CYCLE"
        THEN AstBuildDiagnosticError(check, Append(ctx.macroStack, name), macroSpan)
        ELSE IF check = "MACRO_EXPANSION_DEPTH_EXCEEDED"
        THEN AstBuildDiagnosticError(check, <<>>, macroSpan)
        ELSE IF check # "expand"
        THEN AstBuildDiagnosticError(check, <<name>>, macroSpan)
        ELSE LET expression == QueryExpression(parse(aliases[name].expansion))
             IN  IF IsThrown(expression) THEN expression
                 ELSE [macroSpan |-> macroSpan,
                       name |-> name,
                       expression |-> expression,
                       text |-> TextOfSource(aliases[name].expansion),
                       context |-> ExpansionContext(ctx, name)]

(***************************************************************************)
(* analyzeQuery as a machine: buildExpression is run one call at a time,   *)
(* its pending callers kept in kont.                                       *)
(***************************************************************************)
EmptyContext == [macroStack |-> <<>>, macroDepth |-> 0]

Halted ==
    /\ macroAliases' = NoAliases
    /\ buildInput' = <<>>
    /\ buildContext' = EmptyContext
    /\ mode' = "halt"
    /\ control' = NullAst
    /\ kont' = <<>>

\* return { syntaxDiagnostics, ast }
Return(analysis) ==
    /\ phase' = "done"
    /\ result' = analysis
    /\ Halted
    /\ UNCHANGED <<querySource, languageSpec>>

\* Mutant of CaughtDiagnostic: every error is reported as the generic failure.
CaughtDiagnostic_Generic(error, originalInput) ==
    QueryDiagnostic("error", "AST_BUILD_FAILED", error.message,
                    0, Max(1, Len(originalInput)), "syntax")

\* The diagnostic the catch block of analyzeQuery makes of a thrown error.
CaughtDiagnostic(error, originalInput) ==
    IF error.thrown = "AstBuildDiagnosticError"
    THEN QueryDiagnostic("error", error.diagnosticCode, error.message,
                         error.span.from, error.span.to, "syntax")
    ELSE QueryDiagnostic("error", "AST_BUILD_FAILED", error.message,
                         0, Max(1, Len(originalInput)), "syntax")

Catch(error) ==
    Return([syntaxDiagnostics |-> <<CaughtDiagnostic(error, TextOfSource(querySource))>>,
            ast |-> NullAst])

Goto(m, c, k, ctx, text) ==
    /\ mode' = m
    /\ control' = c
    /\ kont' = k
    /\ buildContext' = ctx
    /\ buildInput' = text
    /\ UNCHANGED <<phase, result, querySource, languageSpec, macroAliases>>

\* analyzeQuery up to the call of buildExpression on the querySource's expression.
Analyze ==
    /\ phase = "ready"
    /\ LET text == TextOfSource(querySource)
           topNode == parse(querySource)
           syntaxDiagnostics == collectSyntaxDiagnostics(topNode, text)
           index == buildMacroAliasIndex(languageSpec, text)
           expression == QueryExpression(topNode)
       IN  IF syntaxDiagnostics # <<>>
           THEN Return([syntaxDiagnostics |-> syntaxDiagnostics, ast |-> NullAst])
           ELSE IF IsThrown(index) THEN Catch(index)
           ELSE IF IsThrown(expression) THEN Catch(expression)
           ELSE /\ phase' = "build"
                /\ macroAliases' = index.aliases
                /\ buildInput' = text
                /\ buildContext' = EmptyContext
                /\ mode' = "eval"
                /\ control' = expression
                /\ kont' = <<>>
                /\ UNCHANGED <<querySource, languageSpec, result>>
    /\ UNCHANGED <<editorVars, engineVars, completionVars, classifierVars>>

Evaluating(name) == phase = "build" /\ mode = "eval" /\ control.name = name

\* case "Expression"
EvalExpression ==
    /\ Evaluating("Expression")
    /\ LET child == expectChild(control, <<"OrExpression">>)
       IN  IF IsThrown(child) THEN Catch(child)
           ELSE Goto("eval", child, kont, buildContext, buildInput)
    /\ UNCHANGED <<editorVars, engineVars, completionVars, classifierVars>>

\* The terms of a clause list are built in order; the frame keeps those
\* still to build and those built.
EvalClauseList(childName, operator) ==
    LET children == getChildren(control, childName)
    IN  IF children = <<>> THEN Catch(foldLogical(control, <<>>, operator))
        ELSE Goto("eval", Head(children),
                  <<[k |-> "fold", node |-> control, operator |-> operator,
                     todo |-> Tail(children), terms |-> <<>>]>> \o kont,
                  buildContext, buildInput)

\* case "OrExpression"
EvalOrExpression ==
    /\ Evaluating("OrExpression")
    /\ EvalClauseList("AndExpression", "OR")
    /\ UNCHANGED <<editorVars, engineVars, completionVars, classifierVars>>

\* case "AndExpression"
EvalAndExpression ==
    /\ Evaluating("AndExpression")
    /\ EvalClauseList("NotExpression", "AND")
    /\ UNCHANGED <<editorVars, engineVars, completionVars, classifierVars>>

\* case "NotExpression"
EvalNotExpression ==
    /\ Evaluating("NotExpression")
    /\ LET primary == expectChild(control, <<"Primary">>)
       IN  IF IsThrown(primary) THEN Catch(primary)
           ELSE IF HasChild(control, "NotOp")
           THEN Goto("eval", primary, <<[k |-> "not", node |-> control]>> \o kont,
                     buildContext, buildInput)
           ELSE Goto("eval", primary, kont, buildContext, buildInput)
    /\ UNCHANGED <<editorVars, engineVars, completionVars, classifierVars>>

\* case "Primary", and the throw after the switch for any other node
EvalPrimary ==
    /\ phase = "build" /\ mode = "eval"
    /\ control.name \notin {"Expression", "OrExpression", "AndExpression",
                            "NotExpression", "MacroCall", "Comparison"}
    /\ IF control.name = "Primary" /\ HasChild(control, "Comparison")
       THEN Goto("eval", getChild(control, "Comparison"), kont, buildContext, buildInput)
       ELSE IF control.name = "Primary" /\ HasChild(control, "MacroCall")
       THEN Goto("eval", getChild(control, "MacroCall"), kont, buildContext, buildInput)
       ELSE IF control.name = "Primary" /\ HasChild(control, "Group")
       THEN LET expression == expectChild(getChild(control, "Group"), <<"Expression">>)
            IN  IF IsThrown(expression) THEN Catch(expression)
                ELSE Goto("eval", expression, kont, buildContext, buildInput)
       ELSE Catch(Error(<<"Unsupported node while building AST">>))
    /\ UNCHANGED <<editorVars, engineVars, completionVars, classifierVars>>

\* case "MacroCall": expandMacroAlias up to the recursive call
EvalMacroCall ==
    /\ Evaluating("MacroCall")
    /\ LET call == expandMacroAlias(control, buildInput, buildContext, macroAliases)
       IN  IF IsThrown(call) THEN Catch(call)
           ELSE Goto("eval", call.expression,
                     <<[k |-> "macro", macroSpan |-> call.macroSpan,
                        context |-> buildContext, input |-> buildInput]>> \o kont,
                     call.context, call.text)
    /\ UNCHANGED <<editorVars, engineVars, completionVars, classifierVars>>

\* case "Comparison"
EvalComparison ==
    /\ Evaluating("Comparison")
    /\ LET node == buildComparison(control, buildInput, languageSpec)
       IN  IF IsThrown(node) THEN Catch(node)
           ELSE Goto("return", node, kont, buildContext, buildInput)
    /\ UNCHANGED <<editorVars, engineVars, completionVars, classifierVars>>

Returning(k) ==
    phase = "build" /\ mode = "return" /\ kont # <<>> /\ Head(kont).k = k

\* A term of a clause list is built: build the next, or fold them all.
ReturnToClauseList ==
    /\ Returning("fold")
    /\ LET frame == Head(kont)
           terms == Append(frame.terms, control)
       IN  IF frame.todo # <<>>
           THEN Goto("eval", Head(frame.todo),
                     <<[frame EXCEPT !.todo = Tail(frame.todo), !.terms = terms]>>
                        \o Tail(kont),
                     buildContext, buildInput)
           ELSE Goto("return", foldLogical(frame.node, terms, frame.operator),
                     Tail(kont), buildContext, buildInput)
    /\ UNCHANGED <<editorVars, engineVars, completionVars, classifierVars>>

\* Mutant of ReturnToNot: the operand is returned as it is.
ReturnToNot_NoWrap ==
    /\ Returning("not")
    /\ Goto("return", control, Tail(kont), buildContext, buildInput)
    /\ UNCHANGED <<editorVars, engineVars, completionVars, classifierVars>>

\* The operand of NOT is built: wrap it.
ReturnToNot ==
    /\ Returning("not")
    /\ Goto("return",
            [kind |-> "not", expression |-> control, span |-> spanOf(Head(kont).node)],
            Tail(kont), buildContext, buildInput)
    /\ UNCHANGED <<editorVars, engineVars, completionVars, classifierVars>>

\* Mutant of ReturnToMacroCall: the stack of the expansion is kept, as one
\* array shared by all calls and never popped would be.
ReturnToMacroCall_SharedStack ==
    /\ Returning("macro")
    /\ LET frame == Head(kont)
       IN  Goto("return", remapQueryAstSpans(control, frame.macroSpan), Tail(kont),
                [frame.context EXCEPT !.macroStack = buildContext.macroStack],
                frame.input)
    /\ UNCHANGED <<editorVars, engineVars, completionVars, classifierVars>>

\* The expansion is built: expandMacroAlias remaps its spans and returns to
\* its caller, whose context and text are the ones of before the call.
ReturnToMacroCall ==
    /\ Returning("macro")
    /\ LET frame == Head(kont)
       IN  Goto("return", remapQueryAstSpans(control, frame.macroSpan), Tail(kont),
                frame.context, frame.input)
    /\ UNCHANGED <<editorVars, engineVars, completionVars, classifierVars>>

OptionsVersion == W_1

\* buildAstFromQuery returned the root: analyzeQuery returns the envelope.
ReturnEnvelope ==
    /\ phase = "build" /\ mode = "return" /\ kont = <<>>
    /\ LET stats == computeAstStats(control)
       IN  Return([syntaxDiagnostics |-> <<>>,
                   ast |-> [astVersion |-> OptionsVersion,
                            grammarVersion |-> OptionsVersion,
                            source |-> [rawQuery |-> TextOfSource(querySource)],
                            root |-> control,
                            metadata |-> [parser |-> W_lezer,
                                          nodeCount |-> stats.nodeCount,
                                          maxDepth |-> stats.maxDepth]]])
    /\ UNCHANGED <<editorVars, engineVars, completionVars, classifierVars>>

NextBuild ==
    \/ Analyze
    \/ EvalExpression
    \/ EvalOrExpression
    \/ EvalAndExpression
    \/ EvalNotExpression
    \/ EvalPrimary
    \/ EvalMacroCall
    \/ EvalComparison
    \/ ReturnToClauseList
    \/ ReturnToNot
    \/ ReturnToMacroCall
    \/ ReturnEnvelope

(***************************************************************************)
(* Bounds of the editor model.                                             *)
(***************************************************************************)
MaxSeq == 3        \* analysis passes that schedule a semantic check
MaxTicks == 8      \* clock ticks of TickMs each

TickMs == 50
DebounceMs == 150

(***************************************************************************)
(* The texts the user types. Each analysis pass is a pure function of the  *)
(* text: a text with syntax errors has diagnostics and no AST, a text      *)
(* without has an AST and no diagnostics (analyzeQuery).                   *)
(***************************************************************************)
Texts == {"q1", "q2", "bad"}

Diag(code, severity, source) ==
    [code |-> code, severity |-> severity, source |-> source]

EditorAnalysis(text) ==
    IF text = "bad"
    THEN [syntaxDiagnostics |-> <<Diag("SYNTAX_ERROR", "error", "syntax")>>, hasAst |-> FALSE]
    ELSE [syntaxDiagnostics |-> <<>>, hasAst |-> TRUE]

\* The mount effect analyses props.value without a language spec, so the
\* builder fails on any text that parses: the first pass never has an AST.
InitialAnalysis(text) ==
    IF text = "bad"
    THEN EditorAnalysis(text)
    ELSE [syntaxDiagnostics |-> <<Diag("AST_BUILD_FAILED", "error", "syntax")>>, hasAst |-> FALSE]

\* What the remote semantic check may answer with.
SemanticAnswers ==
    { <<>>, <<Diag("TYPE_MISMATCH", "error", "semantic")>> }

\* The diagnostic of the catch block: from 0 to Math.max(1, query.length).
SemanticCallbackFailed(query) ==
    [code |-> "SEMANTIC_CALLBACK_FAILED", severity |-> "warning", source |-> "semantic",
     from |-> 0, to |-> IF Len(query) >= 1 THEN Len(query) ELSE 1]

Delivery(query, diagnostics, seq) ==
    [query |-> query, diagnostics |-> diagnostics, requestSeq |-> seq]

(***************************************************************************)
(* dispatchDiagnostics(syntaxDiagnostics, ast, query)                      *)
(***************************************************************************)
\* The early return: no callback or no AST.
DispatchReturnsEarly(analysis) == ~hasValidate \/ ~analysis.hasAst

\* The timers left after window.clearTimeout(debounceTimerRef.current).
ClearTimeout(ts, ref) == IF ref # 0 THEN {t \in ts : t.id # ref} ELSE ts

dispatchDiagnostics(analysis, query) ==
    /\ delivered' = Delivery(query, analysis.syntaxDiagnostics, 0)
    /\ IF DispatchReturnsEarly(analysis)
       THEN UNCHANGED <<semanticSeq, debounceTimerRef, nextTimerId, timers>>
       ELSE /\ semanticSeq' = semanticSeq + 1
            /\ debounceTimerRef' = nextTimerId
            /\ nextTimerId' = nextTimerId + 1
            /\ timers' = ClearTimeout(timers, debounceTimerRef) \cup
                 {[id |-> nextTimerId,
                   deadline |-> now + DebounceMs,
                   requestSeq |-> semanticSeq + 1,
                   query |-> query,
                   baseDiagnostics |-> analysis.syntaxDiagnostics]}

\* A document change: the update listener analyses the new text and runs
\* runAnalysis(analysis, value), which dispatches its diagnostics.
Keystroke ==
    /\ semanticSeq < MaxSeq
    /\ \E value \in Texts \ {doc} :
         /\ doc' = value
         /\ dispatchDiagnostics(EditorAnalysis(value), value)
    /\ lastChange' = now
    /\ UNCHANGED <<hasValidate, inflight, now>>
    /\ UNCHANGED <<buildVars, engineVars, completionVars, classifierVars>>

\* A re-render with other props: latestPropsRef.current = props.
Rerender ==
    /\ hasValidate' = ~hasValidate
    /\ UNCHANGED <<doc, semanticSeq, debounceTimerRef, nextTimerId, timers,
                   inflight, delivered, now, lastChange>>
    /\ UNCHANGED <<buildVars, engineVars, completionVars, classifierVars>>

\* The debounce timer fires: the callback calls validateSemantics and awaits.
TimerFires ==
    /\ \E t \in timers :
         /\ now >= t.deadline
         /\ timers' = timers \ {t}
         /\ inflight' = inflight \cup
              {[requestSeq |-> t.requestSeq, query |-> t.query,
                baseDiagnostics |-> t.baseDiagnostics]}
    /\ UNCHANGED <<doc, hasValidate, semanticSeq, debounceTimerRef, nextTimerId,
                   delivered, now, lastChange>>
    /\ UNCHANGED <<buildVars, engineVars, completionVars, classifierVars>>

\* The request's sequence number is still the latest.
IsLatest(r) == r.requestSeq = semanticSeq

\* The promise resolves with the semantic diagnostics.
ResponseArrives ==
    /\ \E r \in inflight, semanticDiagnostics \in SemanticAnswers :
         /\ inflight' = inflight \ {r}
         /\ IF IsLatest(r)
            THEN delivered' = Delivery(r.query, r.baseDiagnostics \o semanticDiagnostics,
                                       r.requestSeq)
            ELSE UNCHANGED delivered
    /\ UNCHANGED <<doc, hasValidate, semanticSeq, debounceTimerRef, nextTimerId,
                   timers, now, lastChange>>
    /\ UNCHANGED <<buildVars, engineVars, completionVars, classifierVars>>

\* Mutant of the catch block: the failure is swallowed and nothing is delivered.
ResponseFails_Silent ==
    /\ \E r \in inflight : inflight' = inflight \ {r}
    /\ UNCHANGED <<doc, hasValidate, semanticSeq, debounceTimerRef, nextTimerId,
                   timers, delivered, now, lastChange>>
    /\ UNCHANGED <<buildVars, engineVars, completionVars, classifierVars>>

\* The promise rejects, or the callback throws.
ResponseFails ==
    /\ \E r \in inflight :
         /\ inflight' = inflight \ {r}
         /\ IF IsLatest(r)
            THEN delivered' = Delivery(r.query,
                                       Append(r.baseDiagnostics, SemanticCallbackFailed(r.query)),
                                       r.requestSeq)
            ELSE UNCHANGED delivered
    /\ UNCHANGED <<doc, hasValidate, semanticSeq, debounceTimerRef, nextTimerId,
                   timers, now, lastChange>>
    /\ UNCHANGED <<buildVars, engineVars, completionVars, classifierVars>>

Tick ==
    /\ now < MaxTicks * TickMs
    /\ now' = now + TickMs
    /\ UNCHANGED <<doc, hasValidate, semanticSeq, debounceTimerRef, nextTimerId,
                   timers, inflight, delivered, lastChange>>
    /\ UNCHANGED <<buildVars, engineVars, completionVars, classifierVars>>

(***************************************************************************)
(* The queries and language specs analysed.                                *)
(***************************************************************************)
MaxChain == 12     \* aliases in a chain m1() -> m2() -> ... -> mn()
MaxTree == 4       \* aliases in a chain where each calls the next twice
MaxTerms == 4      \* terms of a clause list t1 AND t2 AND ... AND tn

\* Terms of the grammar.
FieldT(name) == Node("Field", <<Tok("Identifier", name)>>)
ScalarT(name, raw) == Node("ScalarValue", <<Tok(name, raw)>>)
CompareT(field, op, scalar) ==
    Node("Comparison", <<FieldT(field), Tok("CompareOperator", op), scalar>>)
ListItemT(scalar, first) ==
    IF first THEN Glued(Node("ListItem", <<scalar>>))
    ELSE Node("ListItem", <<scalar>>)
ListT(scalars) ==
    Node("ListLiteral",
         <<Tok("(", Chr("("))>> \o
         [i \in 1..(2 * Len(scalars) - 1) |->
            IF i % 2 = 1 THEN ListItemT(scalars[(i + 1) \div 2], i = 1)
            ELSE Glued(Tok(",", Chr(",")))] \o
         <<Glued(Tok(")", Chr(")")))>>)
InT(field, op, scalars) ==
    Node("Comparison", <<FieldT(field), Tok("InOperator", op), ListT(scalars)>>)
BareT(field) == Node("Comparison", <<FieldT(field)>>)
CallT(name) ==
    Node("MacroCall", <<Tok("Identifier", name), Glued(Tok("(", Chr("("))),
                        Glued(Tok(")", Chr(")")))>>)
PrimaryT(inner) == Node("Primary", <<inner>>)
PlainT(inner) == Node("NotExpression", <<PrimaryT(inner)>>)
NotT(inner) == Node("NotExpression", <<Tok("NotOp", W_NOT), PrimaryT(inner)>>)
Interleave(items, sep) ==
    [i \in 1..(2 * Len(items) - 1) |->
       IF i % 2 = 1 THEN items[(i + 1) \div 2] ELSE sep]
AndT(nots) == Node("AndExpression", Interleave(nots, Tok("AndOp", W_AND)))
OrT(ands) == Node("OrExpression", Interleave(ands, Tok("OrOp", W_OR)))
ExprT(ands) == Node("Expression", <<OrT(ands)>>)
GroupT(expr) ==
    Node("Group", <<Tok("(", Chr("(")), Glued(expr), Glued(Tok(")", Chr(")")))>>)
QueryT(expr) == Source(Node("Query", <<expr>>), <<>>)

\* A query of one clause.
One(notExpr) == QueryT(ExprT(<<AndT(<<notExpr>>)>>))

StatusIsOpen == CompareT(W_status, W_eq, ScalarT("String", W_qOpen))
StatusInList ==
    InT(W_status, W_NOT__IN, <<ScalarT("String", W_qOpen), ScalarT("String", W_qEsc),
                               ScalarT("Number", W_5), ScalarT("Boolean", W_false)>>)

\* status = "Open"
SrcComparison == One(PlainT(StatusIsOpen))
\* status NOT  IN ("Open","a\"b",5,false)
SrcList == One(PlainT(StatusInList))
\* archived, status, unknown: bare field references
SrcBare(field) == One(PlainT(BareT(field)))
\* NOT archived, NOT status, ...: the tree of a direct NOT before a bare
\* field reference
SrcNotBare(field) == One(NotT(BareT(field)))
\* NOT (archived OR status = "Open") AND status NOT  IN (...)
SrcMixed ==
    QueryT(ExprT(<<AndT(<<NotT(GroupT(ExprT(<<AndT(<<PlainT(BareT(W_archived))>>),
                                                AndT(<<PlainT(StatusIsOpen)>>)>>))),
                          PlainT(StatusInList)>>)>>))
\* m<i>()
SrcCall(i) == One(PlainT(CallT(MacroName(i))))
\* NOT m<i>()
SrcNotCall(i) == One(NotT(CallT(MacroName(i))))
\* m<i>() AND m<j>()
SrcCallAndCall(i, j) ==
    QueryT(ExprT(<<AndT(<<PlainT(CallT(MacroName(i))), PlainT(CallT(MacroName(j)))>>)>>))
\* status = "Open" OR m<i>()
SrcComparisonOrCall(i) ==
    QueryT(ExprT(<<AndT(<<PlainT(StatusIsOpen)>>), AndT(<<PlainT(CallT(MacroName(i)))>>)>>))
\* status = : the value is missing, the parser leaves an error node
SrcMissingValue ==
    One(PlainT(Node("Comparison", <<FieldT(W_status), Tok("CompareOperator", W_eq),
                                    Tok(ErrorNodeName, <<>>)>>)))
\* status = "Open" ) : input the parser did not consume
SrcTrailing ==
    Source(Node("Query", <<ExprT(<<AndT(<<PlainT(StatusIsOpen)>>)>>)>>), <<" ", ")">>)

Alias(name, expansion) == [name |-> name, kind |-> "macroAlias", expansion |-> expansion]

\* m1() -> m2() -> ... -> mn() -> tail
Chain(n, tail) ==
    [i \in 1..n |-> Alias(MacroName(i), IF i < n THEN SrcCall(i + 1) ELSE tail)]

\* m1() -> m2() AND m2(), ..., mn() -> status = "Open"
Tree(n) ==
    [i \in 1..n |-> Alias(MacroName(i),
                          IF i < n THEN SrcCallAndCall(i + 1, i + 1) ELSE SrcComparison)]

\* The bodies the last alias of a chain expands to.
Tails(n) ==
    {SrcComparison, SrcList, SrcMixed, SrcBare(W_archived), SrcBare(W_status),
     SrcMissingValue, SrcTrailing}
    \cup {SrcCall(k) : k \in 1..(n + 1)}
    \cup {SrcComparisonOrCall(k) : k \in {1, n}}

Fields ==
    <<[name |-> W_status, type |-> "string", enumValues |-> <<W_Open, W_Closed>>],
      [name |-> W_archived, type |-> "boolean"],
      [name |-> W_count, type |-> "number"]>>

LanguageSpecWith(functions) ==
    [version |-> W_1,
     fields |-> Fields,
     operatorsByType |-> [string |-> <<W_eq, W_IN, W_NOT_IN>>, boolean |-> <<W_eq>>],
     functions |-> functions]

AnalysisInput(q, functions) == [query |-> q, spec |-> LanguageSpecWith(functions)]

ChainInputs ==
    UNION {{AnalysisInput(q, Chain(n, tail)) :
               q \in {SrcCall(1), SrcNotCall(1)}, tail \in Tails(n)} : n \in 1..MaxChain}

\* n aliases where each calls the next and the last: m<i>() -> m<i+1>() AND m<n>().
Comb(n) ==
    [i \in 1..n |-> Alias(MacroName(i),
                          IF i < n THEN SrcCallAndCall(i + 1, n) ELSE SrcComparison)]

TreeInputs ==
    {AnalysisInput(SrcCall(1), Tree(n)) : n \in 1..MaxTree}
    \cup {AnalysisInput(SrcCall(1), Comb(n)) : n \in 1..MaxChain}

\* The spec of the test suite: one alias, m1() for isOpen().
BaseQueries ==
    {SrcComparison, SrcList, SrcMixed, SrcBare(W_archived), SrcBare(W_status),
     SrcBare(W_unknown), SrcBare(W_count), SrcCall(1), SrcCall(2), SrcNotCall(1),
     SrcCallAndCall(1, 1), SrcComparisonOrCall(1), SrcMissingValue, SrcTrailing}
    \cup {SrcNotBare(field) : field \in {W_archived, W_status, W_unknown, W_count}}

BaseInputs ==
    {AnalysisInput(q, functions) :
        q \in BaseQueries,
        functions \in {<<>>, Chain(1, SrcComparison), Chain(1, SrcList), Chain(1, SrcMixed),
                       Chain(1, SrcNotBare(W_archived)), Chain(1, SrcNotBare(W_status))}}

DuplicateInputs ==
    {AnalysisInput(q, functions) :
        q \in {SrcComparison, SrcCall(1), SrcCall(2), SrcMissingValue},
        functions \in {Chain(1, SrcComparison) \o Chain(1, SrcList),
                       Chain(2, SrcComparison) \o Chain(1, SrcComparison)}}

\* The caller passes no language spec (QueryEditor.tsx, the mount effect).
UndefinedInputs ==
    {[query |-> q, spec |-> Undefined] : q \in {SrcComparison, SrcCall(1), SrcMissingValue}}

\* count = <i>: the i-th term of a clause list
ClauseTerm(i) == PlainT(CompareT(W_count, W_eq, ScalarT("Number", Digits(i))))
ClauseTerms(n) == [i \in 1..n |-> ClauseTerm(i)]
\* count = 1 AND count = 2 AND ... AND count = n
SrcAnd(n) == QueryT(ExprT(<<AndT(ClauseTerms(n))>>))
\* count = 1 OR count = 2 OR ... OR count = n
SrcOr(n) == QueryT(ExprT([i \in 1..n |-> AndT(<<ClauseTerm(i)>>)]))

\* Texts with syntax errors: the trees the parser leaves error nodes in.
ErrT(chars) == Tok(ErrorNodeName, chars)
\* status = <value>, the value one or more terms the parser could not read
BrokenT(values) ==
    PlainT(Node("Comparison", <<FieldT(W_status), Tok("CompareOperator", W_eq)>> \o values))

SyntaxErrorSources ==
    <<\* status =  AND status = : two error nodes of no width, apart
      QueryT(ExprT(<<AndT(<<BrokenT(<<ErrT(<<>>)>>), BrokenT(<<ErrT(<<>>)>>)>>)>>)),
      \* status = @@ : one error node of two characters
      One(BrokenT(<<ErrT(<<"@", "@">>)>>)),
      \* status = @# : two error nodes, the second starting where the first ends
      One(BrokenT(<<ErrT(<<"@">>), Glued(ErrT(<<"#">>))>>)),
      \* status = @ x : an error node inside an error node
      One(BrokenT(<<Node(ErrorNodeName, <<ErrT(<<"@">>), Tok("Identifier", <<"x">>)>>)>>)),
      \* status = @) : an error node at the end, then unparsed input
      Source(Node("Query", <<ExprT(<<AndT(<<BrokenT(<<ErrT(<<"@">>)>>)>>)>>)>>), <<")">>),
      \* status =  ) : an error node of no width at the end, then unparsed input
      Source(Node("Query", <<ExprT(<<AndT(<<BrokenT(<<ErrT(<<>>)>>)>>)>>)>>), <<" ", ")">>),
      \* status = @@ AND status =  AND status = @# : three clauses in error
      QueryT(ExprT(<<AndT(<<BrokenT(<<ErrT(<<"@", "@">>)>>), BrokenT(<<ErrT(<<>>)>>),
                            BrokenT(<<ErrT(<<"@">>), Glued(ErrT(<<"#">>))>>)>>)>>)),
      \* status = @ AND status = "Open" ) : an error node, then unparsed input apart
      Source(Node("Query", <<ExprT(<<AndT(<<BrokenT(<<ErrT(<<"@">>)>>),
                                           PlainT(StatusIsOpen)>>)>>)>>), <<" ", ")">>)>>

SyntaxErrorInputs ==
    {AnalysisInput(SyntaxErrorSources[i], functions) :
        i \in 1..Len(SyntaxErrorSources), functions \in {<<>>, Chain(1, SrcComparison)}}

ClauseListInputs ==
    {AnalysisInput(q, <<>>) : q \in {SrcAnd(n) : n \in 1..MaxTerms} \cup
                                    {SrcOr(n) : n \in 1..MaxTerms}}

AnalysisInputs ==
    ChainInputs \cup TreeInputs \cup BaseInputs \cup DuplicateInputs \cup UndefinedInputs
       \cup ClauseListInputs \cup SyntaxErrorInputs

\* No operation of the engine is running.
\* No context is being inferred.
ClassifierIdle ==
    /\ syntaxPc = "idle"
    /\ syntaxArgs = [null |-> TRUE]
    /\ syntaxContext = [null |-> TRUE]

\* The completion source is not part of a run of the other components.
CompletionIdle ==
    /\ completionPc = "idle"
    /\ completionConfig = [null |-> TRUE]
    /\ completionContext = [null |-> TRUE]
    /\ staticItems = <<>>
    /\ completionResult = [null |-> TRUE]

EngineIdle ==
    /\ enginePc = "idle"
    /\ engineCeilings = [null |-> TRUE]
    /\ request = [op |-> "none"]
    /\ structure = <<>>
    /\ semantics = [valid |-> TRUE, diagnostics |-> <<>>]
    /\ lowered = <<>>
    /\ engineResult = [null |-> TRUE]

\* No analysis is running.
BuildIdle ==
    /\ phase = "idle"
    /\ querySource = Source(Node("Query", <<>>), <<>>)
    /\ languageSpec = Undefined
    /\ macroAliases = NoAliases
    /\ buildInput = <<>>
    /\ buildContext = EmptyContext
    /\ mode = "halt"
    /\ control = NullAst
    /\ kont = <<>>
    /\ result = [syntaxDiagnostics |-> <<>>, ast |-> NullAst]

\* After the mount effect: the initial text analysed and dispatched.
InitEditor ==
    /\ BuildIdle
    /\ EngineIdle
    /\ CompletionIdle
    /\ ClassifierIdle
    /\ doc \in Texts
    /\ hasValidate \in BOOLEAN
    /\ semanticSeq = 0
    /\ debounceTimerRef = 0
    /\ nextTimerId = 1
    /\ timers = {}
    /\ inflight = {}
    /\ delivered = Delivery(doc, InitialAnalysis(doc).syntaxDiagnostics, 0)
    /\ now = 0
    /\ lastChange = 0

NextEditor ==
    \/ Keystroke
    \/ Rerender
    \/ TimerFires
    \/ ResponseArrives
    \/ ResponseFails
    \/ Tick

SpecEditor == InitEditor /\ [][NextEditor]_vars

\* The editor is not part of a run of analyzeQuery alone.
EditorIdle ==
    /\ doc = "q1"
    /\ hasValidate = FALSE
    /\ semanticSeq = 0
    /\ debounceTimerRef = 0
    /\ nextTimerId = 1
    /\ timers = {}
    /\ inflight = {}
    /\ delivered = Delivery("q1", <<>>, 0)
    /\ now = 0
    /\ lastChange = 0

\* analyzeQuery is called with a query and options.
InitBuild ==
    /\ EditorIdle
    /\ EngineIdle
    /\ CompletionIdle
    /\ ClassifierIdle
    /\ \E in \in AnalysisInputs :
         /\ querySource = in.query
         /\ languageSpec = in.spec
    /\ phase = "ready"
    /\ macroAliases = NoAliases
    /\ buildInput = <<>>
    /\ buildContext = EmptyContext
    /\ mode = "halt"
    /\ control = NullAst
    /\ kont = <<>>
    /\ result = [syntaxDiagnostics |-> <<>>, ast |-> NullAst]

SpecBuild == InitBuild /\ [][NextBuild]_vars

\* analyzeQuery is synchronous: once called it runs until it returns.
SpecBuildFair == SpecBuild /\ WF_vars(NextBuild)

(***************************************************************************)
(* The backend engine (DefaultQueryAstEngine.kt). An envelope is the       *)
(* record of QueryAstEnvelope; a nullable property that is null is Null.   *)
(***************************************************************************)
Null == [null |-> TRUE]

\* String.isBlank()
isBlank(text) == \A i \in 1..Len(text) : IsWhitespace(text[i])

HasError(diagnostics) ==
    \E i \in 1..Len(diagnostics) : diagnostics[i].severity = "ERROR"

Codes(diagnostics) == {diagnostics[i].code : i \in 1..Len(diagnostics)}

\* private fun diagnostic(code, message), of the engine and of the walker
diagnostic(code, message) == QueryDiagnostic("ERROR", code, message, 0, 1, "ast")

\* AstStructureWalker: `walker` is its count and its diagnostics.
NewWalker == [count |-> 0, diagnostics |-> <<>>]

Report(walker, code, message) ==
    [walker EXCEPT !.diagnostics = Append(@, diagnostic(code, message))]

\* Mutant of validateDepth: the ceiling itself is already too deep.
validateDepth_Inclusive(walker, depth, ceilings) ==
    IF depth >= ceilings.maxDepth THEN Report(walker, "AST_TOO_DEEP", <<>>) ELSE walker

validateDepth(walker, depth, ceilings) ==
    IF depth > ceilings.maxDepth THEN Report(walker, "AST_TOO_DEEP", <<>>) ELSE walker

validateSpan(walker, span, rawLength) ==
    IF span = Null THEN walker
    ELSE IF span.from < 0 \/ span.to < span.from \/ span.to > rawLength
    THEN Report(walker, "INVALID_SPAN", <<span.from, span.to>>)
    ELSE walker

\* count += 1; validateDepth(depth); validateSpan(span, rawLength)
Enter(walker, span, depth, rawLength, ceilings) ==
    validateSpan(validateDepth([walker EXCEPT !.count = @ + 1], depth, ceilings),
                 span, rawLength)

RECURSIVE walkValue(_, _, _, _, _)
RECURSIVE walkItems(_, _, _, _, _, _)

\* value.items.forEach { walkValue(it, depth, rawLength) } from item i on
walkItems(walker, items, i, depth, rawLength, ceilings) ==
    IF i > Len(items) THEN walker
    ELSE walkItems(walkValue(walker, items[i], depth, rawLength, ceilings),
                   items, i + 1, depth, rawLength, ceilings)

walkValue(walker, value, depth, rawLength, ceilings) ==
    Only({CASE value.kind = "list" ->
                 walkItems(entered, value.items, 1, depth + 1, rawLength, ceilings)
            [] value.kind = "stringLiteral" ->
                 IF Len(value.value) > ceilings.maxStringLiteralLength
                 THEN Report(entered, "STRING_LITERAL_TOO_LARGE", <<>>)
                 ELSE entered
            [] OTHER -> entered :
          entered \in {Enter(walker, value.span, depth, rawLength, ceilings)}})

RECURSIVE walkNode(_, _, _, _, _)
walkNode(walker, node, depth, rawLength, ceilings) ==
    Only({CASE node.kind = "comparison" ->
                 Only({walkValue(IF isBlank(node.operator)
                                 THEN Report(field, "EMPTY_OPERATOR", <<>>)
                                 ELSE field,
                                 node.value, depth + 1, rawLength, ceilings) :
                       field \in {validateSpan(entered, node.field.span, rawLength)}})
            [] node.kind = "logical" ->
                 walkNode(walkNode(entered, node.left, depth + 1, rawLength, ceilings),
                          node.right, depth + 1, rawLength, ceilings)
            [] node.kind = "not" ->
                 walkNode(entered, node.expression, depth + 1, rawLength, ceilings) :
          entered \in {Enter(walker, node.span, depth, rawLength, ceilings)}})

\* AstStructureWalker.validate
WalkerValidate(root, rawLength, ceilings) ==
    LET walked == walkNode(NewWalker, root, 1, rawLength, ceilings)
    IN  IF walked.count > ceilings.maxNodeCount
        THEN Append(walked.diagnostics, diagnostic("AST_TOO_LARGE", <<>>))
        ELSE walked.diagnostics

\* Mutant of validateStructure: the walk is skipped once a check has failed.
validateStructure_ShortCircuit(envelope, ceilings) ==
    LET version == IF envelope.astVersion \notin ceilings.supportedAstVersions
                   THEN <<diagnostic("UNSUPPORTED_AST_VERSION", envelope.astVersion)>>
                   ELSE <<>>
        grammar == IF isBlank(envelope.grammarVersion)
                   THEN <<diagnostic("MISSING_GRAMMAR_VERSION", <<>>)>>
                   ELSE <<>>
    IN  IF version \o grammar # <<>> THEN version \o grammar
        ELSE WalkerValidate(envelope.root, Len(envelope.source.rawQuery), ceilings)

\* private fun validateStructure(envelope)
validateStructure(envelope, ceilings) ==
    LET version == IF envelope.astVersion \notin ceilings.supportedAstVersions
                   THEN <<diagnostic("UNSUPPORTED_AST_VERSION", envelope.astVersion)>>
                   ELSE <<>>
        grammar == IF isBlank(envelope.grammarVersion)
                   THEN <<diagnostic("MISSING_GRAMMAR_VERSION", <<>>)>>
                   ELSE <<>>
        raw == IF Len(envelope.source.rawQuery) > ceilings.maxRawQueryLength
               THEN <<diagnostic("RAW_QUERY_TOO_LARGE", <<>>)>>
               ELSE <<>>
        walk == WalkerValidate(envelope.root, Len(envelope.source.rawQuery), ceilings)
        metadata == envelope.metadata
        parser == IF metadata # Null /\ metadata.parser # W_lezer
                  THEN <<diagnostic("UNSUPPORTED_PARSER_METADATA", <<>>)>>
                  ELSE <<>>
        counts == IF metadata # Null /\ (metadata.nodeCount <= 0 \/ metadata.maxDepth <= 0)
                  THEN <<diagnostic("INVALID_METADATA", <<>>)>>
                  ELSE <<>>
    IN  version \o grammar \o raw \o walk \o parser \o counts

(***************************************************************************)
(* SemanticValidator.kt. A spec is the record of QueryLanguageSpec;        *)
(* operatorsByType is a function on the types it has a list for, and a    *)
(* field has no operators or enumValues where the property is null.       *)
(***************************************************************************)
\* spec.fields.associateBy(FieldSpec::name)[name]: the last field of the name
fieldsByName(spec, name) ==
    LET found == SelectSeq(spec.fields, LAMBDA field : field.name = name)
    IN  IF found = <<>> THEN Null ELSE found[Len(found)]

\* ComparisonNode.error(code, message, span?.from, span?.to): a null span is
\* reported at 0..1
ComparisonError(code, message, span) ==
    IF span = Null THEN QueryDiagnostic("ERROR", code, message, 0, 1, "semantic")
    ELSE QueryDiagnostic("ERROR", code, message, span.from, span.to, "semantic")

errorForValue(value, code, message) == ComparisonError(code, message, value.span)

TypeLiteral(type) ==
    CASE type = "STRING" -> "stringLiteral"
      [] type = "NUMBER" -> "numberLiteral"
      [] type = "BOOLEAN" -> "booleanLiteral"

\* Mutant of validateScalarValue: enumValues are looked at for string fields
\* only.
validateScalarValue_StringFieldsOnly(value, field) ==
    (IF value.kind # TypeLiteral(field.type)
     THEN <<errorForValue(value, "TYPE_MISMATCH", <<field.name>>)>>
     ELSE <<>>)
    \o (IF /\ "enumValues" \in DOMAIN field
           /\ field.type = "STRING"
           /\ value.kind = "stringLiteral"
           /\ value.value \notin Range(field.enumValues)
        THEN <<errorForValue(value, "INVALID_ENUM_VALUE", <<value.value, field.name>>)>>
        ELSE <<>>)

validateScalarValue(value, field) ==
    (IF value.kind # TypeLiteral(field.type)
     THEN <<errorForValue(value, "TYPE_MISMATCH", <<field.name>>)>>
     ELSE <<>>)
    \o (IF /\ "enumValues" \in DOMAIN field
           /\ value.kind = "stringLiteral"
           /\ value.value \notin Range(field.enumValues)
        THEN <<errorForValue(value, "INVALID_ENUM_VALUE", <<value.value, field.name>>)>>
        ELSE <<>>)

\* Mutant of validateItems: only the first item of a list is checked.
validateItems_FirstOnly(items, i, field) ==
    IF items = <<>> THEN <<>> ELSE validateScalarValue(items[1], field)

RECURSIVE validateItems(_, _, _)
validateItems(items, i, field) ==
    IF i > Len(items) THEN <<>>
    ELSE validateScalarValue(items[i], field) \o validateItems(items, i + 1, field)

\* Mutant of validateValueForField: NOT IN is not taken for a list operator.
validateValueForField_InOnly(node, field) ==
    LET value == node.value
    IN  IF value.kind = "list"
        THEN (IF node.operator # W_IN
              THEN <<ComparisonError("LIST_OPERATOR_MISMATCH", <<>>, value.span)>>
              ELSE <<>>)
             \o (IF value.items = <<>>
                 THEN <<ComparisonError("EMPTY_LIST", <<>>, value.span)>>
                 ELSE <<>>)
             \o validateItems(value.items, 1, field)
        ELSE (IF node.operator = W_IN
              THEN <<ComparisonError("SCALAR_OPERATOR_MISMATCH", <<>>, value.span)>>
              ELSE <<>>)
             \o validateScalarValue(value, field)

validateValueForField(node, field) ==
    LET value == node.value
    IN  IF value.kind = "list"
        THEN (IF node.operator # W_IN /\ node.operator # W_NOT_IN
              THEN <<ComparisonError("LIST_OPERATOR_MISMATCH", <<>>, value.span)>>
              ELSE <<>>)
             \o (IF value.items = <<>>
                 THEN <<ComparisonError("EMPTY_LIST", <<>>, value.span)>>
                 ELSE <<>>)
             \o validateItems(value.items, 1, field)
        ELSE (IF node.operator = W_IN \/ node.operator = W_NOT_IN
              THEN <<ComparisonError("SCALAR_OPERATOR_MISMATCH", <<>>, value.span)>>
              ELSE <<>>)
             \o validateScalarValue(value, field)

\* Mutant of AllowedOperators: an empty field.operators falls back to the
\* operators of the type, as a null one does.
AllowedOperators_EmptyFallsBack(field, spec) ==
    IF "operators" \in DOMAIN field /\ field.operators # <<>> THEN field.operators
    ELSE IF field.type \in DOMAIN spec.operatorsByType
    THEN spec.operatorsByType[field.type]
    ELSE <<>>

\* field.operators ?: spec.operatorsByType[field.type].orEmpty()
AllowedOperators(field, spec) ==
    IF "operators" \in DOMAIN field THEN field.operators
    ELSE IF field.type \in DOMAIN spec.operatorsByType
    THEN spec.operatorsByType[field.type]
    ELSE <<>>

\* Mutant of validateComparison: no return after UNKNOWN_FIELD, the operator
\* is then checked against no operator at all.
validateComparison_NoReturn(node, spec) ==
    LET field == fieldsByName(spec, node.field.name)
    IN  IF field = Null
        THEN <<ComparisonError("UNKNOWN_FIELD", <<node.field.name>>, node.field.span),
               ComparisonError("UNSUPPORTED_OPERATOR", <<node.operator>>, node.span)>>
        ELSE (IF node.operator \notin Range(AllowedOperators(field, spec))
              THEN <<ComparisonError("UNSUPPORTED_OPERATOR", <<node.operator, field.name>>,
                                     node.span)>>
              ELSE <<>>)
             \o validateValueForField(node, field)

validateComparison(node, spec) ==
    LET field == fieldsByName(spec, node.field.name)
    IN  IF field = Null
        THEN <<ComparisonError("UNKNOWN_FIELD", <<node.field.name>>,
                               node.field.span)>>
        ELSE (IF node.operator \notin Range(AllowedOperators(field, spec))
              THEN <<ComparisonError("UNSUPPORTED_OPERATOR", <<node.operator, field.name>>,
                                     node.span)>>
              ELSE <<>>)
             \o validateValueForField(node, field)

RECURSIVE validateNode(_, _)
validateNode(node, spec) ==
    CASE node.kind = "comparison" -> validateComparison(node, spec)
      [] node.kind = "logical" ->
           validateNode(node.left, spec) \o validateNode(node.right, spec)
      [] node.kind = "not" -> validateNode(node.expression, spec)

\* SemanticValidator.validate
SemanticValidate(ast, spec) ==
    LET diagnostics == validateNode(ast.root, spec)
    IN  [valid |-> ~HasError(diagnostics), diagnostics |-> diagnostics]

(***************************************************************************)
(* IrCompiler.kt                                                           *)
(***************************************************************************)
RECURSIVE compileValue(_)
compileValue(value) ==
    CASE value.kind = "stringLiteral" -> [kind |-> "irString", value |-> value.value]
      [] value.kind = "numberLiteral" -> [kind |-> "irNumber", value |-> value.value]
      [] value.kind = "booleanLiteral" -> [kind |-> "irBoolean", value |-> value.value]
      [] value.kind = "list" ->
           [kind |-> "irList",
            items |-> [i \in 1..Len(value.items) |-> compileValue(value.items[i])]]

\* Mutant of IrCompiler.compile: the children of a logical node change places.
RECURSIVE IrCompile_Swapped(_)
IrCompile_Swapped(node) ==
    CASE node.kind = "comparison" ->
           [kind |-> "irComparison", field |-> node.field.name,
            operator |-> node.operator, value |-> compileValue(node.value)]
      [] node.kind = "logical" ->
           [kind |-> "irLogical", operator |-> node.operator,
            left |-> IrCompile_Swapped(node.right), right |-> IrCompile_Swapped(node.left)]
      [] node.kind = "not" ->
           [kind |-> "irNot", expression |-> IrCompile_Swapped(node.expression)]

RECURSIVE IrCompile(_)
IrCompile(node) ==
    CASE node.kind = "comparison" ->
           [kind |-> "irComparison", field |-> node.field.name,
            operator |-> node.operator, value |-> compileValue(node.value)]
      [] node.kind = "logical" ->
           [kind |-> "irLogical", operator |-> node.operator,
            left |-> IrCompile(node.left), right |-> IrCompile(node.right)]
      [] node.kind = "not" -> [kind |-> "irNot", expression |-> IrCompile(node.expression)]

(***************************************************************************)
(* The wire form. A JSON value is tagged with its type; an object carries  *)
(* its members and, apart from them, the class discriminator `kind` of the *)
(* engine's Json ("none" where the text has none). The classes are those   *)
(* of the AST contract: a property with a default may be absent, any other *)
(* must be present, and no other key is accepted (ignoreUnknownKeys =      *)
(* false).                                                                 *)
(***************************************************************************)
JNull == [j |-> "null"]
JString(s) == [j |-> "string", s |-> s]
JNumber(n) == [j |-> "number", n |-> n]
JBoolean(b) == [j |-> "boolean", b |-> b]
JArray(items) == [j |-> "array", items |-> items]
JObject(kind, members) == [j |-> "object", kind |-> kind, members |-> members]
\* A text that is not JSON.
JMalformed == [j |-> "malformed"]

NoMembers == [key \in {} |-> JNull]

SerializationException(message) ==
    [thrown |-> "SerializationException", message |-> message]

\* The object is of the class: its discriminator, its required keys, no
\* key that is not a property.
Shape(json, kind, required, optional) ==
    /\ json.j = "object"
    /\ json.kind = kind
    /\ required \subseteq DOMAIN json.members
    /\ DOMAIN json.members \subseteq required \cup optional

IsAbsent(members, key) == key \notin DOMAIN members \/ members[key].j = "null"

WellFormedSpan(json) ==
    /\ Shape(json, "none", {"from", "to"}, {})
    /\ json.members.from.j = "number"
    /\ json.members.to.j = "number"

OptionalSpan(members) == IsAbsent(members, "span") \/ WellFormedSpan(members.span)

ReadSpan(members) ==
    IF IsAbsent(members, "span") THEN Null
    ELSE Span(members.span.members.from.n, members.span.members.to.n)

RECURSIVE WellFormedValue(_)
WellFormedValue(json) ==
    /\ json.j = "object"
    /\ OptionalSpan(json.members)
    /\ CASE json.kind = "stringLiteral" ->
              /\ Shape(json, "stringLiteral", {"value"}, {"span"})
              /\ json.members.value.j = "string"
         [] json.kind = "numberLiteral" ->
              /\ Shape(json, "numberLiteral", {"value", "raw"}, {"span"})
              /\ json.members.value.j = "number"
              /\ json.members.raw.j = "string"
         [] json.kind = "booleanLiteral" ->
              /\ Shape(json, "booleanLiteral", {"value"}, {"span"})
              /\ json.members.value.j = "boolean"
         [] json.kind = "list" ->
              /\ Shape(json, "list", {"items"}, {"span"})
              /\ json.members.items.j = "array"
              /\ \A i \in 1..Len(json.members.items.items) :
                    WellFormedValue(json.members.items.items[i])
         [] OTHER -> FALSE

RECURSIVE ReadValue(_)
ReadValue(json) ==
    LET members == json.members
    IN  CASE json.kind = "stringLiteral" ->
               [kind |-> "stringLiteral", value |-> members.value.s,
                span |-> ReadSpan(members)]
          [] json.kind = "numberLiteral" ->
               [kind |-> "numberLiteral", value |-> members.value.n,
                raw |-> members.raw.s, span |-> ReadSpan(members)]
          [] json.kind = "booleanLiteral" ->
               [kind |-> "booleanLiteral", value |-> members.value.b,
                span |-> ReadSpan(members)]
          [] json.kind = "list" ->
               [kind |-> "list",
                items |-> [i \in 1..Len(members.items.items) |->
                             ReadValue(members.items.items[i])],
                span |-> ReadSpan(members)]

WellFormedFieldRef(json) ==
    /\ Shape(json, "none", {"name"}, {"kind", "span"})
    /\ json.members.name.j = "string"
    /\ "kind" \in DOMAIN json.members => json.members.kind.j = "string"
    /\ OptionalSpan(json.members)

ReadFieldRef(json) ==
    [kind |-> IF "kind" \in DOMAIN json.members THEN json.members.kind.s ELSE "fieldRef",
     name |-> json.members.name.s,
     span |-> ReadSpan(json.members)]

RECURSIVE WellFormedNode(_)
WellFormedNode(json) ==
    /\ json.j = "object"
    /\ OptionalSpan(json.members)
    /\ CASE json.kind = "comparison" ->
              /\ Shape(json, "comparison", {"field", "operator", "value"}, {"span"})
              /\ WellFormedFieldRef(json.members.field)
              /\ json.members.operator.j = "string"
              /\ WellFormedValue(json.members.value)
         [] json.kind = "logical" ->
              /\ Shape(json, "logical", {"operator", "left", "right"}, {"span"})
              /\ json.members.operator.j = "string"
              /\ json.members.operator.s \in {W_AND, W_OR}
              /\ WellFormedNode(json.members.left)
              /\ WellFormedNode(json.members.right)
         [] json.kind = "not" ->
              /\ Shape(json, "not", {"expression"}, {"span"})
              /\ WellFormedNode(json.members.expression)
         [] OTHER -> FALSE

RECURSIVE ReadNode(_)
ReadNode(json) ==
    LET members == json.members
    IN  CASE json.kind = "comparison" ->
               [kind |-> "comparison", field |-> ReadFieldRef(members.field),
                operator |-> members.operator.s, value |-> ReadValue(members.value),
                span |-> ReadSpan(members)]
          [] json.kind = "logical" ->
               [kind |-> "logical",
                operator |-> IF members.operator.s = W_AND THEN "AND" ELSE "OR",
                left |-> ReadNode(members.left), right |-> ReadNode(members.right),
                span |-> ReadSpan(members)]
          [] json.kind = "not" ->
               [kind |-> "not", expression |-> ReadNode(members.expression),
                span |-> ReadSpan(members)]

WellFormedMetadata(json) ==
    /\ Shape(json, "none", {"parser", "nodeCount", "maxDepth"}, {})
    /\ json.members.parser.j = "string"
    /\ json.members.nodeCount.j = "number"
    /\ json.members.maxDepth.j = "number"

WellFormedEnvelope(json) ==
    /\ Shape(json, "none", {"astVersion", "grammarVersion", "source", "root"}, {"metadata"})
    /\ json.members.astVersion.j = "string"
    /\ json.members.grammarVersion.j = "string"
    /\ Shape(json.members.source, "none", {"rawQuery"}, {})
    /\ json.members.source.members.rawQuery.j = "string"
    /\ WellFormedNode(json.members.root)
    /\ IsAbsent(json.members, "metadata") \/ WellFormedMetadata(json.members.metadata)

ReadEnvelope(json) ==
    LET members == json.members
    IN  [astVersion |-> members.astVersion.s,
         grammarVersion |-> members.grammarVersion.s,
         source |-> [rawQuery |-> members.source.members.rawQuery.s],
         root |-> ReadNode(members.root),
         metadata |->
            IF IsAbsent(members, "metadata") THEN Null
            ELSE [parser |-> members.metadata.members.parser.s,
                  nodeCount |-> members.metadata.members.nodeCount.n,
                  maxDepth |-> members.metadata.members.maxDepth.n]]

\* json.decodeFromString(QueryAstEnvelope.serializer(), text)
decodeFromString(json) ==
    IF WellFormedEnvelope(json) THEN ReadEnvelope(json)
    ELSE SerializationException(<<"Failed to decode AST envelope">>)

\* Mutant of the encoder: no span is written.
SpanMember_Omitted(span) == NoMembers

\* json.encodeToString(QueryAstEnvelope.serializer(), envelope): a property
\* that has its default is left out.
SpanMember(span) ==
    IF span = Null THEN NoMembers
    ELSE "span" :> JObject("none", [from |-> JNumber(span.from), to |-> JNumber(span.to)])

RECURSIVE EncodeValue(_)
EncodeValue(value) ==
    JObject(value.kind,
            (CASE value.kind = "stringLiteral" -> [value |-> JString(value.value)]
               [] value.kind = "numberLiteral" ->
                    [value |-> JNumber(value.value), raw |-> JString(value.raw)]
               [] value.kind = "booleanLiteral" -> [value |-> JBoolean(value.value)]
               [] value.kind = "list" ->
                    [items |-> JArray([i \in 1..Len(value.items) |->
                                         EncodeValue(value.items[i])])])
            @@ SpanMember(value.span))

EncodeFieldRef(field) ==
    JObject("none",
            [name |-> JString(field.name)]
            @@ (IF field.kind = "fieldRef" THEN NoMembers ELSE "kind" :> JString(field.kind))
            @@ SpanMember(field.span))

RECURSIVE EncodeNode(_)
EncodeNode(node) ==
    JObject(node.kind,
            (CASE node.kind = "comparison" ->
                    [field |-> EncodeFieldRef(node.field),
                     operator |-> JString(node.operator),
                     value |-> EncodeValue(node.value)]
               [] node.kind = "logical" ->
                    [operator |-> JString(IF node.operator = "AND" THEN W_AND ELSE W_OR),
                     left |-> EncodeNode(node.left), right |-> EncodeNode(node.right)]
               [] node.kind = "not" -> [expression |-> EncodeNode(node.expression)])
            @@ SpanMember(node.span))

encodeToString(envelope) ==
    JObject("none",
            [astVersion |-> JString(envelope.astVersion),
             grammarVersion |-> JString(envelope.grammarVersion),
             source |-> JObject("none", [rawQuery |-> JString(envelope.source.rawQuery)]),
             root |-> EncodeNode(envelope.root)]
            @@ (IF envelope.metadata = Null THEN NoMembers
                ELSE "metadata" :>
                       JObject("none",
                               [parser |-> JString(envelope.metadata.parser),
                                nodeCount |-> JNumber(envelope.metadata.nodeCount),
                                maxDepth |-> JNumber(envelope.metadata.maxDepth)])))

(***************************************************************************)
(* One call of an operation of the engine. compile is run a stage at a     *)
(* time; structure and semantics are its locals, lowered the roots it has  *)
(* passed to irCompiler.compile.                                           *)
(***************************************************************************)
EngineReturn(value) ==
    /\ enginePc' = "done"
    /\ engineResult' = value

CompileResult(success, diagnostics, ir) ==
    [success |-> success, diagnostics |-> diagnostics, ir |-> ir]

\* Mutant of StructureRejects: compile goes on whatever the structure is.
StructureRejects_Never(diagnostics) == FALSE

\* structure.any { it.severity == DiagnosticSeverity.ERROR }
StructureRejects(diagnostics) == HasError(diagnostics)

\* val structure = validateStructure(ast); if (...) return CompileResult(false, structure, null)
CompileValidateStructure ==
    /\ enginePc = "ready"
    /\ request.op = "compile"
    /\ structure' = validateStructure(request.ast, engineCeilings)
    /\ IF StructureRejects(structure')
       THEN EngineReturn(CompileResult(FALSE, structure', Null))
       ELSE enginePc' = "semantics" /\ UNCHANGED engineResult
    /\ UNCHANGED <<engineCeilings, request, semantics, lowered>>
    /\ UNCHANGED <<editorVars, buildVars, completionVars, classifierVars>>

\* val semantics = semanticValidator.validate(ast, spec); if (!semantics.valid) return ...
CompileValidateSemantics ==
    /\ enginePc = "semantics"
    /\ semantics' = SemanticValidate(request.ast, request.spec)
    /\ IF ~semantics'.valid
       THEN EngineReturn(CompileResult(FALSE, semantics'.diagnostics, Null))
       ELSE enginePc' = "lower" /\ UNCHANGED engineResult
    /\ UNCHANGED <<engineCeilings, request, structure, lowered>>
    /\ UNCHANGED <<editorVars, buildVars, completionVars, classifierVars>>

\* val ir = irCompiler.compile(ast.root); return CompileResult(true, emptyList(), ir)
CompileLower ==
    /\ enginePc = "lower"
    /\ lowered' = Append(lowered, request.ast.root)
    /\ EngineReturn(CompileResult(TRUE, <<>>, IrCompile(request.ast.root)))
    /\ UNCHANGED <<engineCeilings, request, structure, semantics>>
    /\ UNCHANGED <<editorVars, buildVars, completionVars, classifierVars>>

DecodeAndValidateEnvelope ==
    /\ enginePc = "ready"
    /\ request.op = "decodeAndValidateEnvelope"
    /\ LET envelope == decodeFromString(request.json)
           diagnostics == validateStructure(envelope, engineCeilings)
       IN  IF IsThrown(envelope)
           THEN EngineReturn([valid |-> FALSE, envelope |-> Null,
                              diagnostics |->
                                 <<QueryDiagnostic("ERROR", "AST_DECODE_FAILED",
                                                   envelope.message, 0, 1, "ast")>>])
           ELSE EngineReturn([valid |-> ~HasError(diagnostics), envelope |-> envelope,
                              diagnostics |-> diagnostics])
    /\ UNCHANGED <<engineCeilings, request, structure, semantics, lowered>>
    /\ UNCHANGED <<editorVars, buildVars, completionVars, classifierVars>>

ValidateSemantics ==
    /\ enginePc = "ready"
    /\ request.op = "validateSemantics"
    /\ EngineReturn(SemanticValidate(request.ast, request.spec))
    /\ UNCHANGED <<engineCeilings, request, structure, semantics, lowered>>
    /\ UNCHANGED <<editorVars, buildVars, completionVars, classifierVars>>

NextEngine ==
    \/ CompileValidateStructure
    \/ CompileValidateSemantics
    \/ CompileLower
    \/ DecodeAndValidateEnvelope
    \/ ValidateSemantics

(***************************************************************************)
(* Envelopes, specs and wire texts the engine is called with.              *)
(***************************************************************************)
\* An engine constructed with ceilings small enough to be exceeded.
SmallCeilings ==
    [supportedAstVersions |-> {W_1}, maxNodeCount |-> 6, maxDepth |-> 4,
     maxStringLiteralLength |-> 6, maxRawQueryLength |-> 20]

W_999 == <<"9", "9", "9">>
W_neq == <<"!", "=">>
W_Nope == <<"N", "o", "p", "e">>
W_in == <<"i", "n">>

\* status = "Open"
RawShort == W_status \o <<" ">> \o W_eq \o <<" ">> \o W_qOpen
\* status = "Open" OR archived
RawLong == RawShort \o <<" ">> \o W_OR \o <<" ">> \o W_archived

\* The spans a comparison is given: none, those of RawShort, or those with
\* one span that is not a span of the text.
SpanModes == {"none", "ok", "badNode", "badField", "badValue"}

NodeSpanOf(spanMode) ==
    CASE spanMode = "none" -> Null
      [] spanMode = "badNode" -> Span(5, 2)
      [] OTHER -> Span(0, Len(RawShort))

FieldSpanOf(spanMode) ==
    CASE spanMode = "none" -> Null
      [] spanMode = "badField" -> Span(0 - 1, 3)
      [] OTHER -> Span(0, Len(W_status))

ValueSpanOf(spanMode) ==
    CASE spanMode = "none" -> Null
      [] spanMode = "badValue" -> Span(9, Len(RawShort) + 1)
      [] OTHER -> Span(9, Len(RawShort))

StringLiteral(text, spanMode) ==
    [kind |-> "stringLiteral", value |-> text, span |-> ValueSpanOf(spanMode)]
NumberLiteral(n, spanMode) ==
    [kind |-> "numberLiteral", value |-> n, raw |-> Digits(n), span |-> ValueSpanOf(spanMode)]
BooleanLiteral(b, spanMode) ==
    [kind |-> "booleanLiteral", value |-> b, span |-> ValueSpanOf(spanMode)]
ListOf(items, spanMode) ==
    [kind |-> "list", items |-> items, span |-> ValueSpanOf(spanMode)]

\* The values a comparison is given.
Values(spanMode) ==
    <<StringLiteral(W_Open, spanMode), StringLiteral(W_Nope, spanMode),
      StringLiteral(W_unknown, spanMode), NumberLiteral(5, spanMode),
      BooleanLiteral(TRUE, spanMode),
      ListOf(<<>>, spanMode),
      ListOf(<<StringLiteral(W_Open, spanMode)>>, spanMode),
      ListOf(<<StringLiteral(W_unknown, spanMode), NumberLiteral(5, spanMode)>>, spanMode),
      ListOf(<<StringLiteral(W_Closed, spanMode), StringLiteral(W_Open, spanMode)>>, spanMode)>>

Comparison(field, operator, value, spanMode) ==
    [kind |-> "comparison",
     field |-> [kind |-> "fieldRef", name |-> field, span |-> FieldSpanOf(spanMode)],
     operator |-> operator, value |-> value, span |-> NodeSpanOf(spanMode)]

Not(expression) == [kind |-> "not", expression |-> expression, span |-> Null]
Logical(operator, left, right) ==
    [kind |-> "logical", operator |-> operator, left |-> left, right |-> right,
     span |-> Span(0, Len(RawShort))]

StatusOpen == Comparison(W_status, W_eq, StringLiteral(W_Open, "ok"), "ok")
ArchivedOpen == Comparison(W_archived, W_eq, StringLiteral(W_Open, "ok"), "ok")

\* Trees that reach the ceilings of depth and of size, together or apart.
Trees ==
    <<StatusOpen,
      Comparison(W_status, W_eq, StringLiteral(W_Open, "none"), "none"),
      Not(StatusOpen),
      Not(Not(Not(StatusOpen))),
      Not(Not(Not(ArchivedOpen))),
      Logical("AND", StatusOpen, Not(StatusOpen)),
      Logical("AND", Logical("OR", StatusOpen, StatusOpen), StatusOpen),
      Logical("AND", Logical("OR", StatusOpen, ArchivedOpen), StatusOpen),
      Logical("OR", Logical("AND", StatusOpen, Not(StatusOpen)),
                    Comparison(W_status, <<>>, StringLiteral(W_unknown, "ok"), "badField")),
      Comparison(W_status, W_IN,
                 ListOf(<<ListOf(<<StringLiteral(W_Open, "ok")>>, "ok")>>, "ok"), "ok"),
      Logical("AND", Comparison(W_unknown, W_IN, StringLiteral(W_Nope, "ok"), "ok"),
                     Comparison(W_status, W_eq, StringLiteral(W_Nope, "ok"), "ok"))>>

\* A root is chosen as one of the trees or as a comparison of chosen parts.
RootChoices ==
    {[tree |-> i] : i \in 1..Len(Trees)}
    \cup [field : {W_status, W_archived, W_unknown},
          operator : {W_eq, W_IN, W_NOT_IN, W_NOT__IN, W_in, W_neq, <<" ">>},
          value : 1..Len(Values("ok")),
          spanMode : {"ok", "none"}]
    \cup [field : {W_status},
          operator : {W_eq, <<>>},
          value : {1, 3},
          spanMode : SpanModes]

RootOf(choice) ==
    IF "tree" \in DOMAIN choice THEN Trees[choice.tree]
    ELSE Comparison(choice.field, choice.operator,
                    Values(choice.spanMode)[choice.value], choice.spanMode)

Metadatas ==
    {Null,
     [parser |-> W_lezer, nodeCount |-> 2, maxDepth |-> 2],
     [parser |-> W_unknown, nodeCount |-> 2, maxDepth |-> 2],
     [parser |-> W_lezer, nodeCount |-> 0, maxDepth |-> 2],
     [parser |-> W_unknown, nodeCount |-> 2, maxDepth |-> 0 - 1]}

Envelope(astVersion, grammarVersion, rawQuery, root, metadata) ==
    [astVersion |-> astVersion, grammarVersion |-> grammarVersion,
     source |-> [rawQuery |-> rawQuery], root |-> root, metadata |-> metadata]

\* The envelopes: every tree under every fault of the envelope itself, and
\* every comparison in a sound envelope.
EnvelopeChoices ==
    [astVersion : {W_1, W_999},
     grammarVersion : {W_1, <<" ">>},
     rawQuery : {RawShort, RawLong},
     root : {[tree |-> i] : i \in 1..Len(Trees)},
     metadata : Metadatas]
    \cup [astVersion : {W_1}, grammarVersion : {W_1}, rawQuery : {RawShort},
          root : RootChoices, metadata : {Null}]

EnvelopeOf(choice) ==
    Envelope(choice.astVersion, choice.grammarVersion, choice.rawQuery,
             RootOf(choice.root), choice.metadata)

\* The spec of the engine's tests, with a boolean field; one where a field
\* lists its own operators and a type has no list; and one where a field
\* lists no operator at all and a number field has enumValues.
EngineSpecs ==
    <<[version |-> W_1,
       fields |-> <<[name |-> W_status, type |-> "STRING", enumValues |-> <<W_Open, W_Closed>>],
                    [name |-> W_archived, type |-> "BOOLEAN"]>>,
       operatorsByType |-> [type \in {"STRING", "BOOLEAN"} |->
                              IF type = "STRING" THEN <<W_eq, W_neq, W_IN, W_NOT_IN>>
                              ELSE <<W_eq>>],
       functions |-> <<>>],
      [version |-> W_1,
       fields |-> <<[name |-> W_status, type |-> "NUMBER"],
                    [name |-> W_status, type |-> "STRING", operators |-> <<W_IN>>],
                    [name |-> W_archived, type |-> "BOOLEAN"]>>,
       operatorsByType |-> [type \in {"STRING"} |-> <<W_eq>>],
       functions |-> <<>>],
      [version |-> W_1,
       fields |-> <<[name |-> W_status, type |-> "STRING", operators |-> <<>>],
                    [name |-> W_archived, type |-> "NUMBER", enumValues |-> <<W_Closed>>]>>,
       operatorsByType |-> [type \in {"STRING", "NUMBER"} |->
                              IF type = "STRING" THEN <<W_eq, W_IN>>
                              ELSE <<W_eq, W_IN, W_NOT_IN>>],
       functions |-> <<>>]>>

\* The wire text of an envelope with one member replaced or added.
WithMember(json, key, value) ==
    JObject(json.kind, (key :> value) @@ json.members)

WithoutMember(json, key) ==
    JObject(json.kind, [k \in DOMAIN json.members \ {key} |-> json.members[k]])

\* Texts that are not the wire text of an envelope.
BrokenTexts ==
    LET good == encodeToString(Envelope(W_1, W_1, RawShort, StatusOpen, Null))
    IN  <<JMalformed,
          JArray(<<good>>),
          WithMember(good, "extra", JNull),
          WithoutMember(good, "root"),
          WithMember(good, "astVersion", JNumber(1)),
          WithMember(good, "root", JObject("macro", good.members.root.members)),
          WithMember(good, "root", JObject("none", good.members.root.members)),
          WithMember(good, "root",
                     WithMember(good.members.root, "value",
                                JObject("irString", [value |-> JString(W_Open)])))>>

\* A call of the engine: of compile or validateSemantics with an envelope
\* and a spec, of decodeAndValidateEnvelope with the wire text of an
\* envelope, with or without a null metadata written out, or with a text
\* that is none.
IsRequest(r) ==
    \/ \E op \in {"compile", "validateSemantics"}, choice \in EnvelopeChoices,
          i \in 1..Len(EngineSpecs) :
          r = [op |-> op, ast |-> EnvelopeOf(choice), spec |-> EngineSpecs[i]]
    \/ \E choice \in EnvelopeChoices :
          r = [op |-> "decodeAndValidateEnvelope",
               json |-> encodeToString(EnvelopeOf(choice))]
    \/ \E i \in 1..Len(BrokenTexts) :
          r = [op |-> "decodeAndValidateEnvelope", json |-> BrokenTexts[i]]

InitEngine ==
    /\ EditorIdle
    /\ BuildIdle
    /\ CompletionIdle
    /\ ClassifierIdle
    /\ enginePc = "ready"
    /\ engineCeilings = SmallCeilings
    /\ IsRequest(request)
    /\ structure = <<>>
    /\ semantics = [valid |-> TRUE, diagnostics |-> <<>>]
    /\ lowered = <<>>
    /\ engineResult = Null

SpecEngine == InitEngine /\ [][NextEngine]_vars

(***************************************************************************)
(* completion.ts: the completion source.                                   *)
(***************************************************************************)
W_variable == <<"v", "a", "r", "i", "a", "b", "l", "e">>
W_keyword == <<"k", "e", "y", "w", "o", "r", "d">>
W_operator == <<"o", "p", "e", "r", "a", "t", "o", "r">>
W_text == <<"t", "e", "x", "t">>
W_constant == <<"c", "o", "n", "s", "t", "a", "n", "t">>
W_string == <<"s", "t", "r", "i", "n", "g">>
W_start_list == <<"s", "t", "a", "r", "t", " ", "l", "i", "s", "t">>
W_enum == <<" ", "e", "n", "u", "m">>
W_remote == <<"r", "e", "m", "o", "t", "e">>
W_TEAM == <<"T", "E", "A", "M">>
W_gt == <<">">>
W_ge == <<">", "=">>
W_lt == <<"<">>
W_le == <<"<", "=">>
W_quotes == <<"\"", "\"">>

Letters ==
    {"a", "b", "c", "d", "e", "f", "g", "h", "i", "j", "k", "l", "m",
     "n", "o", "p", "q", "r", "s", "t", "u", "v", "w", "x", "y", "z",
     "A", "B", "C", "D", "E", "F", "G", "H", "I", "J", "K", "L", "M",
     "N", "O", "P", "Q", "R", "S", "T", "U", "V", "W", "X", "Y", "Z"}

\* [A-Za-z_] and [A-Za-z0-9_.-]
IsWordStart(c) == c \in Letters \cup {"_"}
IsWordChar(c) == c \in Letters \cup Range(DigitChar) \cup {"_", ".", "-"}

\* A completion item; a property that is undefined is left out.
Completion(label, type) == [label |-> label, type |-> type]

\* value ?? "" of a property of an item.
OrEmpty(item, key) == IF key \in DOMAIN item THEN item[key] ELSE <<>>

\* `${item.label}:${item.type ?? ""}:${item.apply ?? ""}`
CompletionKey(item) ==
    item.label \o <<":">> \o OrEmpty(item, "type") \o <<":">> \o OrEmpty(item, "apply")

RECURSIVE DedupeFrom(_, _, _, _)
DedupeFrom(items, i, seen, kept) ==
    IF i > Len(items) THEN kept
    ELSE IF CompletionKey(items[i]) \in seen
         THEN DedupeFrom(items, i + 1, seen, kept)
         ELSE DedupeFrom(items, i + 1, seen \cup {CompletionKey(items[i])},
                         Append(kept, items[i]))

\* Mutant of dedupeCompletions: of the items of one key the last is kept.
RECURSIVE DedupeLast(_, _)
DedupeLast(items, i) ==
    IF i > Len(items) THEN <<>>
    ELSE IF \E j \in (i + 1)..Len(items) : CompletionKey(items[j]) = CompletionKey(items[i])
         THEN DedupeLast(items, i + 1)
         ELSE <<items[i]>> \o DedupeLast(items, i + 1)

dedupeCompletions_KeepLast(items) == DedupeLast(items, 1)

dedupeCompletions(items) == DedupeFrom(items, 1, {}, <<>>)

Quoted(word) == <<"\"">> \o word \o <<"\"">>

RECURSIVE EnumCompletions(_, _)
EnumCompletions(fields, i) ==
    IF i > Len(fields) THEN <<>>
    ELSE (IF "enumValues" \in DOMAIN fields[i]
          THEN [j \in 1..Len(fields[i].enumValues) |->
                  [label |-> Quoted(fields[i].enumValues[j]),
                   type |-> W_constant,
                   detail |-> fields[i].name \o W_enum]]
          ELSE <<>>)
         \o EnumCompletions(fields, i + 1)

valueCompletions(spec) ==
    dedupeCompletions(
        <<[label |-> W_quotes, apply |-> W_quotes, type |-> W_text, detail |-> W_string],
          Completion(W_true, W_constant),
          Completion(W_false, W_constant),
          [label |-> <<"(">>, type |-> W_text, detail |-> W_start_list]>>
        \o EnumCompletions(spec.fields, 1))

EndsWith(s, suffix) ==
    /\ Len(s) >= Len(suffix)
    /\ SubSeq(s, Len(s) - Len(suffix) + 1, Len(s)) = suffix

\* trimmed.split(/\s+/).at(-1): what follows the last whitespace.
RECURSIVE LastToken(_)
LastToken(s) ==
    IF s = <<>> \/ IsWhitespace(s[Len(s)]) THEN <<>>
    ELSE Append(LastToken(SubSeq(s, 1, Len(s) - 1)), s[Len(s)])

\* /NOT\s+IN$/.test(trimmed)
EndsWithNotIn(s) ==
    /\ EndsWith(s, W_IN)
    /\ LET rest == SubSeq(s, 1, Len(s) - 2)
       IN /\ rest # <<>>
          /\ IsWhitespace(rest[Len(rest)])
          /\ EndsWith(TrimEnd(rest), W_NOT)

FieldCompletions(spec) ==
    [i \in 1..Len(spec.fields) |-> Completion(spec.fields[i].name, W_variable)]

\* spec.fields.find((f) => f.name === name)
FindField(spec, name) ==
    spec.fields[CHOOSE i \in 1..Len(spec.fields) :
                   /\ spec.fields[i].name = name
                   /\ \A j \in 1..(i - 1) : spec.fields[j].name # name]

\* field?.operators ?? spec.operatorsByType[field?.type ?? "string"] ?? []
OperatorsFor(spec, field) ==
    IF "operators" \in DOMAIN field THEN field.operators
    ELSE IF field.type \in DOMAIN spec.operatorsByType
         THEN spec.operatorsByType[field.type]
         ELSE <<>>

inferStaticCompletions(query, pos, spec) ==
    LET before == slice(query, 0, pos)
        trimmed == TrimEnd(before)
        lastToken == LastToken(trimmed)
    IN IF \/ trimmed = <<>>
          \/ trimmed[Len(trimmed)] = "("
          \/ EndsWith(trimmed, W_AND) \/ EndsWith(trimmed, W_OR) \/ EndsWith(trimmed, W_NOT)
       THEN Append(FieldCompletions(spec), Completion(W_NOT, W_keyword))
       ELSE IF \E i \in 1..Len(spec.fields) : spec.fields[i].name = lastToken
       THEN LET operators == OperatorsFor(spec, FindField(spec, lastToken))
            IN [i \in 1..Len(operators) |-> Completion(operators[i], W_operator)]
       ELSE IF \/ lastToken \in {W_eq, W_neq, W_gt, W_ge, W_lt, W_le, W_IN}
               \/ EndsWithNotIn(trimmed)
       THEN valueCompletions(spec)
       ELSE <<Completion(W_AND, W_keyword), Completion(W_OR, W_keyword),
              Completion(W_IN, W_operator)>> \o FieldCompletions(spec)

\* context.matchBefore(/[A-Za-z_][A-Za-z0-9_.-]*/): the leftmost start of a
\* word that ends at the cursor, or Null.
matchBefore(query, pos) ==
    LET starts == {s \in 0..(pos - 1) :
                     /\ IsWordStart(query[s + 1])
                     /\ \A k \in (s + 2)..pos : IsWordChar(query[k])}
    IN IF starts = {} THEN Null
       ELSE [from |-> CHOOSE s \in starts : \A other \in starts : s <= other,
             to |-> pos]

\* The items of the response as the source maps them: label, type, detail
\* and apply of each item.
CallbackItems(response) ==
    [i \in 1..Len(response.items) |->
       [key \in DOMAIN response.items[i] \cap {"label", "type", "detail", "apply"} |->
          response.items[i][key]]]

\* The result of the source for the items collected.
CompletionResultOf(items, context) ==
    LET options == dedupeCompletions(items)
        word == matchBefore(context.query, context.pos)
    IN IF Len(options) = 0 THEN Null
       ELSE [from |-> IF word # Null THEN word.from ELSE context.pos,
             options |-> options]

(***************************************************************************)
(* Inputs of the completion source: the texts and cursor positions, the    *)
(* language specs and what the host's callback answers.                    *)
(***************************************************************************)
Sp == <<" ">>

CompletionQueries ==
    {<<>>,
     W_status \o Sp,
     W_status \o Sp \o W_eq \o Sp,
     W_count \o Sp \o W_ge \o Sp,
     W_status \o Sp \o W_NOT__IN \o Sp,
     W_status \o Sp \o W_IN \o Sp \o <<"(">>,
     W_status \o Sp \o W_eq \o Sp \o W_qOpen \o Sp \o W_AND \o Sp \o W_NOT \o Sp,
     W_unknown \o Sp \o W_OR}

CompletionContexts ==
    UNION {{[query |-> query, pos |-> pos] : pos \in 0..Len(query)} :
             query \in CompletionQueries}

\* The second spec has a field with operators of its own, a field of a type
\* without operators, and an enum value two fields share.
CompletionSpecs ==
    <<LanguageSpecWith(<<>>),
      [LanguageSpecWith(<<>>) EXCEPT
         !.fields = <<[name |-> W_status, type |-> "string", operators |-> <<W_eq, W_neq>>,
                       enumValues |-> <<W_Open, W_Closed>>],
                      [name |-> W_count, type |-> "number"],
                      [name |-> W_unknown, type |-> "string", enumValues |-> <<W_Open>>]>>]>>

\* What config.complete answers with: items new to the list, an item with
\* the key of a local one, items of one key, items without a type, and a
\* response without items.
CallbackResponses ==
    <<[items |-> <<>>],
      [items |-> <<[label |-> Quoted(W_Open), type |-> W_constant, detail |-> W_remote],
                   [label |-> W_TEAM, type |-> W_constant, detail |-> W_remote]>>],
      [items |-> <<[label |-> W_status, type |-> W_variable, detail |-> W_remote],
                   [label |-> W_TEAM],
                   [label |-> W_TEAM, type |-> <<>>, apply |-> <<>>, detail |-> W_remote],
                   [label |-> W_AND, type |-> W_keyword, apply |-> W_AND]>>],
      [items |-> <<[label |-> W_eq, type |-> W_operator],
                   [label |-> W_quotes, type |-> W_text, apply |-> W_quotes]>>],
      [noItems |-> TRUE]>>

(***************************************************************************)
(* createCompletionSource(config)(context)                                 *)
(***************************************************************************)
\* The call up to the await of config.complete, or to its end without one.
CompletionSource ==
    /\ completionPc = "ready"
    /\ \E context \in CompletionContexts :
         LET items == inferStaticCompletions(context.query, context.pos,
                                             completionConfig.languageSpec)
         IN /\ completionContext' = context
            /\ staticItems' = items
            /\ IF completionConfig.complete
               THEN /\ completionPc' = "awaiting"
                    /\ UNCHANGED completionResult
               ELSE /\ completionPc' = "done"
                    /\ completionResult' = CompletionResultOf(items, context)
    /\ UNCHANGED completionConfig
    /\ UNCHANGED <<editorVars, buildVars, engineVars, classifierVars>>

\* The promise resolves. Mapping a response without items throws inside the
\* try block, which leaves callbackItems empty.
CallbackResolves ==
    /\ completionPc = "awaiting"
    /\ \E i \in 1..Len(CallbackResponses) :
         LET response == CallbackResponses[i]
             callbackItems == IF "items" \in DOMAIN response
                              THEN CallbackItems(response) ELSE <<>>
         IN completionResult' =
               CompletionResultOf(staticItems \o callbackItems, completionContext)
    /\ completionPc' = "done"
    /\ UNCHANGED <<completionConfig, completionContext, staticItems>>
    /\ UNCHANGED <<editorVars, buildVars, engineVars, classifierVars>>

\* The promise rejects, or config.complete throws: the catch block.
CallbackFails ==
    /\ completionPc = "awaiting"
    /\ completionResult' = CompletionResultOf(staticItems, completionContext)
    /\ completionPc' = "done"
    /\ UNCHANGED <<completionConfig, completionContext, staticItems>>
    /\ UNCHANGED <<editorVars, buildVars, engineVars, classifierVars>>

\* After createCompletionSource(config).
InitCompletion ==
    /\ EditorIdle
    /\ BuildIdle
    /\ EngineIdle
    /\ ClassifierIdle
    /\ completionPc = "ready"
    /\ \E i \in 1..Len(CompletionSpecs), complete \in BOOLEAN :
         completionConfig = [languageSpec |-> CompletionSpecs[i], complete |-> complete]
    /\ completionContext = Null
    /\ staticItems = <<>>
    /\ completionResult = Null

NextCompletion ==
    \/ CompletionSource
    \/ CallbackResolves
    \/ CallbackFails

SpecCompletion == InitCompletion /\ [][NextCompletion]_vars

(***************************************************************************)
(* completion-syntax.ts: the context of a cursor. A node of the tree is    *)
(* named by its path from the top node, the sequence of child indexes; a   *)
(* node that may be null is Some(path) or Null.                            *)
(***************************************************************************)
Some(path) == [path |-> path]

RECURSIVE NodeAtPath(_, _)
NodeAtPath(node, path) ==
    IF path = <<>> THEN node ELSE NodeAtPath(node.children[Head(path)], Tail(path))

\* SyntaxNode.resolveInner(pos, -1): the innermost node that starts before
\* pos and ends at or after it.
RECURSIVE ResolveFrom(_, _, _)
ResolveFrom(top, path, pos) ==
    LET node == NodeAtPath(top, path)
        entered == {i \in 1..Len(node.children) :
                      node.children[i].from < pos /\ node.children[i].to >= pos}
    IN IF entered = {} THEN path
       ELSE ResolveFrom(top, Append(path, CHOOSE i \in entered : \A j \in entered : i <= j),
                        pos)

resolveInner(top, pos) == ResolveFrom(top, <<>>, pos)

\* The node and its ancestors that satisfy the test, by the length of their
\* paths.
NamedOnPath(top, path, name) ==
    {k \in 0..Len(path) : NodeAtPath(top, SubSeq(path, 1, k)).name = name}

Greatest(numbers) == CHOOSE n \in numbers : \A m \in numbers : m <= n

nearestAncestorNamed(top, node, name) ==
    IF node = Null \/ NamedOnPath(top, node.path, name) = {} THEN Null
    ELSE Some(SubSeq(node.path, 1, Greatest(NamedOnPath(top, node.path, name))))

\* SyntaxNode.getChild(name) of the node at the path.
ChildNamed(top, node, name) ==
    LET children == NodeAtPath(top, node.path).children
        found == {i \in 1..Len(children) : children[i].name = name}
    IN IF found = {} THEN Null
       ELSE Some(Append(node.path, CHOOSE i \in found : \A j \in found : i <= j))

nodeText(query, node) == slice(query, node.from, node.to)

isWhitespaceChar(char) == char \in {" ", "\t", "\n", "\r"}

RECURSIVE LastNonWhitespacePos(_, _)
LastNonWhitespacePos(query, at) ==
    IF at >= 0 /\ isWhitespaceChar(query[at + 1])
    THEN LastNonWhitespacePos(query, at - 1)
    ELSE at

parseCursor(top, query, pos) ==
    LET lastNonWhitespacePos == LastNonWhitespacePos(query, pos - 1)
        trimmedPos == lastNonWhitespacePos + 1
        leafAtPos == Some(resolveInner(top, pos))
        leafAtTrimmed == Some(resolveInner(top, trimmedPos))
        atCursor == nearestAncestorNamed(top, leafAtPos, "Identifier")
        atTrimmed == nearestAncestorNamed(top, leafAtTrimmed, "Identifier")
        identifierAtCursorEnd ==
            IF atCursor # Null /\ NodeAtPath(top, atCursor.path).to = pos
            THEN atCursor ELSE Null
        identifierAtTrimmedPos ==
            IF atTrimmed # Null /\ NodeAtPath(top, atTrimmed.path).to = trimmedPos
            THEN atTrimmed ELSE Null
    IN [tree |-> top,
        query |-> query,
        before |-> slice(query, 0, pos),
        leafAtPos |-> leafAtPos,
        leafAtTrimmed |-> leafAtTrimmed,
        trimmedPos |-> trimmedPos,
        lastNonWhitespaceChar |->
            IF lastNonWhitespacePos >= 0 THEN <<query[lastNonWhitespacePos + 1]>> ELSE <<>>,
        identifierAtCursorEnd |-> identifierAtCursorEnd,
        identifierAtTrimmedPos |-> identifierAtTrimmedPos,
        trailingIdentifier |->
            IF identifierAtCursorEnd # Null
            THEN nodeText(query, NodeAtPath(top, identifierAtCursorEnd.path))
            ELSE <<>>]

\* "clauseStart", "afterNot" or "null"
inferPartialIdentifierContext(cursor) ==
    LET identifier == cursor.identifierAtCursorEnd
        field == nearestAncestorNamed(cursor.tree, identifier, "Field")
        comparison == nearestAncestorNamed(cursor.tree, identifier, "Comparison")
        primary == nearestAncestorNamed(cursor.tree, identifier, "Primary")
        nearestNotExpression == nearestAncestorNamed(cursor.tree, primary, "NotExpression")
    IN IF identifier = Null THEN "null"
       ELSE IF field = Null \/ comparison = Null \/ primary = Null THEN "null"
       ELSE IF \/ ChildNamed(cursor.tree, comparison, "CompareOperator") # Null
               \/ ChildNamed(cursor.tree, comparison, "InOperator") # Null
       THEN "null"
       ELSE IF nearestNotExpression = Null THEN "null"
       ELSE IF /\ ChildNamed(cursor.tree, nearestNotExpression, "Primary") = primary
               /\ ChildNamed(cursor.tree, nearestNotExpression, "NotOp") # Null
       THEN "afterNot"
       ELSE "clauseStart"

\* The field name, or Null.
fieldNameAtTrimmedIdentifier(cursor, spec) ==
    LET identifier == cursor.identifierAtTrimmedPos
    IN IF identifier = Null THEN Null
       ELSE LET text == nodeText(cursor.query, NodeAtPath(cursor.tree, identifier.path))
            IN IF \E i \in 1..Len(spec.fields) : spec.fields[i].name = text
               THEN [name |-> text] ELSE Null

tokenEndingAtTrimmedPos(cursor, name) ==
    LET path == cursor.leafAtTrimmed.path
        ending == {k \in NamedOnPath(cursor.tree, path, name) :
                     NodeAtPath(cursor.tree, SubSeq(path, 1, k)).to = cursor.trimmedPos}
    IN IF ending = {} THEN Null ELSE Some(SubSeq(path, 1, Greatest(ending)))

isClauseStartContext(cursor) ==
    IF trim(cursor.before) = <<>> THEN TRUE
    ELSE IF \/ tokenEndingAtTrimmedPos(cursor, "AndOp") # Null
            \/ tokenEndingAtTrimmedPos(cursor, "OrOp") # Null
    THEN TRUE
    ELSE IF cursor.lastNonWhitespaceChar # <<"(">> THEN FALSE
    ELSE /\ nearestAncestorNamed(cursor.tree, cursor.leafAtPos, "ListLiteral") = Null
         /\ nearestAncestorNamed(cursor.tree, cursor.leafAtPos, "Group") # Null

isAfterNotKeywordContext(cursor) ==
    LET notOp == tokenEndingAtTrimmedPos(cursor, "NotOp")
        notExpression == nearestAncestorNamed(cursor.tree, notOp, "NotExpression")
    IN /\ notOp # Null
       /\ notExpression # Null
       /\ ChildNamed(cursor.tree, notExpression, "Primary") = Null

isAfterCompareOperatorContext(cursor) ==
    LET op == tokenEndingAtTrimmedPos(cursor, "CompareOperator")
        comparison == nearestAncestorNamed(cursor.tree, op, "Comparison")
    IN /\ op # Null
       /\ comparison # Null
       /\ ChildNamed(cursor.tree, comparison, "ScalarValue") = Null

isAfterInOperatorContext(cursor) ==
    LET op == tokenEndingAtTrimmedPos(cursor, "InOperator")
        comparison == nearestAncestorNamed(cursor.tree, op, "Comparison")
    IN /\ op # Null
       /\ comparison # Null
       /\ ChildNamed(cursor.tree, comparison, "ListLiteral") = Null

\* nearestAncestorNamed(leafAtPos, name) ?? nearestAncestorNamed(leafAtTrimmed, name)
EitherAncestorNamed(cursor, name) ==
    IF nearestAncestorNamed(cursor.tree, cursor.leafAtPos, name) # Null
    THEN nearestAncestorNamed(cursor.tree, cursor.leafAtPos, name)
    ELSE nearestAncestorNamed(cursor.tree, cursor.leafAtTrimmed, name)

isInListValueElementStartContext(cursor) ==
    IF cursor.lastNonWhitespaceChar # <<"(">> /\ cursor.lastNonWhitespaceChar # <<",">>
    THEN FALSE
    ELSE LET listLiteral == EitherAncestorNamed(cursor, "ListLiteral")
             comparison == nearestAncestorNamed(cursor.tree, listLiteral, "Comparison")
         IN /\ listLiteral # Null
            /\ comparison # Null
            /\ ChildNamed(cursor.tree, comparison, "InOperator") # Null

HasChildNamed(top, node, name) == ChildNamed(top, node, name) # Null

isCompleteComparisonNode(top, node) ==
    /\ NodeAtPath(top, node.path).name = "Comparison"
    /\ \/ HasChildNamed(top, node, "CompareOperator") /\ HasChildNamed(top, node, "ScalarValue")
       \/ HasChildNamed(top, node, "InOperator") /\ HasChildNamed(top, node, "ListLiteral")
       \/ HasChildNamed(top, node, "Field")

isCompleteNotExpressionNode(top, node) ==
    LET primary == ChildNamed(top, node, "Primary")
        notOp == ChildNamed(top, node, "NotOp")
    IN /\ NodeAtPath(top, node.path).name = "NotExpression"
       /\ primary # Null
       /\ notOp # Null => NodeAtPath(top, primary.path).from > NodeAtPath(top, notOp.path).to

isClauseBoundaryContext(cursor) ==
    \E k \in 0..Len(cursor.leafAtTrimmed.path) :
       LET current == Some(SubSeq(cursor.leafAtTrimmed.path, 1, k))
           node == NodeAtPath(cursor.tree, current.path)
       IN /\ node.to = cursor.trimmedPos
          /\ \/ node.name = "Comparison" /\ isCompleteComparisonNode(cursor.tree, current)
             \/ node.name = "Group"
             \/ node.name = "NotExpression" /\ isCompleteNotExpressionNode(cursor.tree, current)

\* The context with the field name of the comparison around the cursor,
\* when there is one.
WithEnclosingFieldName(kind, cursor) ==
    LET comparison == EitherAncestorNamed(cursor, "Comparison")
        field == IF comparison = Null THEN Null
                 ELSE ChildNamed(cursor.tree, comparison, "Field")
        identifier == IF field = Null THEN Null
                      ELSE ChildNamed(cursor.tree, field, "Identifier")
    IN IF identifier = Null THEN [kind |-> kind]
       ELSE [kind |-> kind,
             fieldName |-> nodeText(cursor.query, NodeAtPath(cursor.tree, identifier.path))]

\* The contexts tested after the list value start and the clause start.
LaterContext(cursor, spec) ==
    LET exactFieldToken == fieldNameAtTrimmedIdentifier(cursor, spec)
        partialIdentifierContext ==
            IF cursor.trailingIdentifier # <<>> THEN inferPartialIdentifierContext(cursor)
            ELSE "null"
    IN IF isAfterNotKeywordContext(cursor) THEN [kind |-> "afterNot"]
       ELSE IF exactFieldToken # Null
       THEN [kind |-> "afterField", fieldName |-> exactFieldToken.name]
       ELSE IF partialIdentifierContext = "clauseStart"
       THEN [kind |-> "partialClauseStart", prefix |-> cursor.trailingIdentifier]
       ELSE IF partialIdentifierContext = "afterNot"
       THEN [kind |-> "partialAfterNot", prefix |-> cursor.trailingIdentifier]
       ELSE IF isAfterInOperatorContext(cursor) THEN [kind |-> "afterInOperator"]
       ELSE IF isAfterCompareOperatorContext(cursor)
       THEN WithEnclosingFieldName("afterCompareOperator", cursor)
       ELSE IF isClauseBoundaryContext(cursor) THEN [kind |-> "clauseBoundary"]
       ELSE [kind |-> "fallback"]

\* Mutant of inferCompletionSyntaxContext: the clause start is tested before
\* the list value start.
inferCompletionSyntaxContext_ClauseStartFirst(top, query, pos, spec) ==
    LET cursor == parseCursor(top, query, pos)
    IN IF isClauseStartContext(cursor) THEN [kind |-> "clauseStart"]
       ELSE IF isInListValueElementStartContext(cursor)
       THEN WithEnclosingFieldName("inListValueStart", cursor)
       ELSE LaterContext(cursor, spec)

inferCompletionSyntaxContext(top, query, pos, spec) ==
    LET cursor == parseCursor(top, query, pos)
    IN IF isInListValueElementStartContext(cursor)
       THEN WithEnclosingFieldName("inListValueStart", cursor)
       ELSE IF isClauseStartContext(cursor) THEN [kind |-> "clauseStart"]
       ELSE LaterContext(cursor, spec)

(***************************************************************************)
(* The trees, texts and cursor offsets classified: complete queries and    *)
(* queries cut short, with the error node the parser leaves where a term   *)
(* is missing.                                                             *)
(***************************************************************************)
Missing == Tok(ErrorNodeName, <<>>)

W_sta == <<"s", "t", "a">>

OpenString == ScalarT("String", W_qOpen)

ClassifierSources ==
    <<Source(Node("Query", <<>>), <<>>),
      Source(Node("Query", <<>>), <<" ", " ">>),
      SrcComparison,
      SrcList,
      SrcMixed,
      SrcNotBare(W_archived),
      SrcNotBare(W_sta),
      SrcBare(W_sta),
      Source(Node("Query", <<ExprT(<<AndT(<<PlainT(BareT(W_status))>>)>>)>>), <<" ">>),
      SrcMissingValue,
      \* status IN
      One(PlainT(Node("Comparison", <<FieldT(W_status), Tok("InOperator", W_IN), Missing>>))),
      \* status NOT IN (
      One(PlainT(Node("Comparison",
                      <<FieldT(W_status), Tok("InOperator", W_NOT_IN),
                        Node("ListLiteral", <<Tok("(", Chr("(")), Missing>>)>>))),
      \* status IN ("Open",
      One(PlainT(Node("Comparison",
                      <<FieldT(W_status), Tok("InOperator", W_IN),
                        Node("ListLiteral",
                             <<Tok("(", Chr("(")), ListItemT(OpenString, TRUE),
                               Glued(Tok(",", Chr(","))), Missing>>)>>))),
      \* (status IN (  with the group open to the end of the text
      One(PlainT(Node("Group",
                      <<Tok("(", Chr("(")),
                        Glued(ExprT(<<AndT(<<PlainT(
                            Node("Comparison",
                                 <<FieldT(W_status), Tok("InOperator", W_IN),
                                   Node("ListLiteral", <<Tok("(", Chr("("))>>)>>))>>)>>)),
                        Missing>>))),
      \* (
      One(PlainT(Node("Group", <<Tok("(", Chr("(")), Missing>>))),
      \* NOT
      One(Node("NotExpression", <<Tok("NotOp", W_NOT), Missing>>)),
      \* status = "Open" AND
      QueryT(ExprT(<<Node("AndExpression",
                          <<PlainT(StatusIsOpen), Tok("AndOp", W_AND), Missing>>)>>)),
      \* status = "Open" OR sta
      QueryT(ExprT(<<AndT(<<PlainT(StatusIsOpen)>>), AndT(<<PlainT(BareT(W_sta))>>)>>))>>

ClassifierArgs ==
    UNION {{[source |-> i, pos |-> pos, spec |-> j] :
              pos \in 0..Len(TextOfSource(ClassifierSources[i])),
              j \in 1..Len(CompletionSpecs)} :
             i \in 1..Len(ClassifierSources)}

(***************************************************************************)
(* inferCompletionSyntaxContext(args)                                      *)
(***************************************************************************)
InferSyntaxContext ==
    /\ syntaxPc = "ready"
    /\ \E args \in ClassifierArgs :
         /\ syntaxArgs' = args
         /\ syntaxContext' =
               inferCompletionSyntaxContext(parse(ClassifierSources[args.source]),
                                            TextOfSource(ClassifierSources[args.source]),
                                            args.pos, CompletionSpecs[args.spec])
    /\ syntaxPc' = "done"
    /\ UNCHANGED <<editorVars, buildVars, engineVars, completionVars>>

InitClassifier ==
    /\ EditorIdle
    /\ BuildIdle
    /\ EngineIdle
    /\ CompletionIdle
    /\ syntaxPc = "ready"
    /\ syntaxArgs = Null
    /\ syntaxContext = Null

NextClassifier == InferSyntaxContext

SpecClassifier == InitClassifier /\ [][NextClassifier]_vars

(***************************************************************************)
(* Properties of analyzeQuery.                                             *)
(***************************************************************************)
\* The expansions in progress: the calls of expandMacroAlias on the stack.
ExpansionsInProgress ==
    Cardinality({i \in 1..Len(kont) : kont[i].k = "macro"})

\* The name a macro call under evaluation calls.
CalledName == textOf(getChild(control, "Identifier"), buildInput)

Returned == phase = "done"
ReturnedAst == phase = "done" /\ result.ast # NullAst

\* The analysis returned no AST and the one diagnostic `code`.
FailsWith(analysis, code) ==
    /\ analysis.ast = NullAst
    /\ Len(analysis.syntaxDiagnostics) = 1
    /\ analysis.syntaxDiagnostics[1].code = code
    /\ analysis.syntaxDiagnostics[1].severity = "error"

\* Every span of an AST node: its own, its field's, its value's, its items'.
RECURSIVE AllSpans(_)
AllSpans(node) ==
    CASE node.kind = "comparison" ->
           {node.span, node.field.span} \cup AllSpans(node.value)
      [] node.kind = "logical" ->
           {node.span} \cup AllSpans(node.left) \cup AllSpans(node.right)
      [] node.kind = "not" -> {node.span} \cup AllSpans(node.expression)
      [] node.kind = "list" ->
           {node.span} \cup {node.items[i].span : i \in 1..Len(node.items)}
      [] OTHER -> {node.span}

\* The spans of the nodes of a syntax tree.
RECURSIVE TreeSpans(_)
TreeSpans(node) ==
    {spanOf(node)} \cup UNION {TreeSpans(node.children[i]) : i \in 1..Len(node.children)}

(***************************************************************************)
(* C2: analyzeQuery terminates whatever the aliases are, and the number of *)
(* macro expansions in progress never exceeds 10.                          *)
(***************************************************************************)
C2_TerminatesWithinCeiling ==
    /\ [](ExpansionsInProgress <= MAX_MACRO_EXPANSION_DEPTH)
    /\ <>Returned

\* The ceiling is reached, in an expansion that branches, and the analysis
\* goes on to return.
C2_Witness ==
    /\ phase = "build"
    /\ mode = "return"
    /\ ExpansionsInProgress = MAX_MACRO_EXPANSION_DEPTH
    /\ \E i \in 1..Len(kont) : kont[i].k = "fold" /\ Len(kont[i].terms) = 1

(***************************************************************************)
(* C3: a macro call that names an alias already on the stack of            *)
(* expansions in progress yields the single diagnostic                     *)
(* MACRO_EXPANSION_CYCLE and a null ast, also at depth 10.                 *)
(***************************************************************************)
C3_CycleReported ==
    [][(Evaluating("MacroCall") /\ CalledName \in Range(buildContext.macroStack))
         => FailsWith(result', "MACRO_EXPANSION_CYCLE") /\ phase' = "done"]_vars

\* A cycle reported for a call made with 10 expansions in progress.
C3_Witness ==
    /\ Returned
    /\ FailsWith(result, "MACRO_EXPANSION_CYCLE")
    /\ Len(result.syntaxDiagnostics[1].message) = MAX_MACRO_EXPANSION_DEPTH + 1

(***************************************************************************)
(* C4, as claimed: a macro call reached with 10 expansions in progress     *)
(* whose name is not on the stack yields MACRO_EXPANSION_DEPTH_EXCEEDED.   *)
(***************************************************************************)
C4_AsClaimed ==
    [][(/\ Evaluating("MacroCall")
        /\ buildContext.macroDepth >= MAX_MACRO_EXPANSION_DEPTH
        /\ CalledName \notin Range(buildContext.macroStack))
         => FailsWith(result', "MACRO_EXPANSION_DEPTH_EXCEEDED")]_vars

\* The query m1() over a chain of n distinct aliases ending in a comparison.
IsChainRun(n) ==
    /\ querySource = SrcCall(1)
    /\ languageSpec = LanguageSpecWith(Chain(n, SrcComparison))

(***************************************************************************)
(* C4, amended: a macro call reached with 10 expansions in progress that   *)
(* names a declared alias not on the stack yields                          *)
(* MACRO_EXPANSION_DEPTH_EXCEEDED and a null ast; analysing m1() over a    *)
(* chain of n distinct aliases ending in a comparison fails with this code *)
(* when n >= 11 and succeeds when n <= 10.                                 *)
(***************************************************************************)
C4_DepthCeiling ==
    /\ [][(/\ Evaluating("MacroCall")
           /\ buildContext.macroDepth >= MAX_MACRO_EXPANSION_DEPTH
           /\ CalledName \in DOMAIN macroAliases
           /\ CalledName \notin Range(buildContext.macroStack))
            => FailsWith(result', "MACRO_EXPANSION_DEPTH_EXCEEDED") /\ phase' = "done"]_vars
    /\ [](\A n \in 1..MaxChain :
            Returned /\ IsChainRun(n) =>
               IF n >= MAX_MACRO_EXPANSION_DEPTH + 1
               THEN FailsWith(result, "MACRO_EXPANSION_DEPTH_EXCEEDED")
               ELSE result.ast # NullAst /\ result.syntaxDiagnostics = <<>>)

\* The chain of 11 aliases has failed on the ceiling.
C4_Witness ==
    /\ Returned
    /\ IsChainRun(MAX_MACRO_EXPANSION_DEPTH + 1)
    /\ FailsWith(result, "MACRO_EXPANSION_DEPTH_EXCEEDED")

(***************************************************************************)
(* C5: after a successful macro expansion every span of the subtree that   *)
(* replaces the call is the span of the call, and no span of an alias body *)
(* is left in the AST returned.                                            *)
(***************************************************************************)
C5_SpansRemapped ==
    /\ [][Returning("macro") => AllSpans(control') = {Head(kont).macroSpan}]_vars
    /\ [](ReturnedAst => AllSpans(result.ast.root) \subseteq TreeSpans(parse(querySource)))

\* An AST returned for NOT m1() where m1 expands, through a second alias,
\* to a comparison with a list.
C5_Witness ==
    /\ ReturnedAst
    /\ querySource = SrcNotCall(1)
    /\ Len(languageSpec.functions) = 2
    /\ result.ast.root.expression.kind = "comparison"
    /\ result.ast.root.expression.value.kind = "list"
    /\ AllSpans(result.ast.root.expression) = {Span(4, 8)}

(***************************************************************************)
(* C6: every span of an envelope analyzeQuery returns satisfies            *)
(* 0 <= from <= to <= length(rawQuery).                                    *)
(***************************************************************************)
SpanWithin(span, length) == 0 <= span.from /\ span.from <= span.to /\ span.to <= length

C6_SpansValid ==
    ReturnedAst =>
       \A span \in AllSpans(result.ast.root) :
          SpanWithin(span, Len(result.ast.source.rawQuery))

\* An envelope for m1(), four characters, where the alias body is longer
\* and holds a boolean shorthand.
C6_Witness ==
    /\ ReturnedAst
    /\ querySource = SrcCall(1)
    /\ Len(result.ast.source.rawQuery) = 4
    /\ result.ast.root.kind = "logical"
    /\ result.ast.root.left.kind = "not"

(***************************************************************************)
(* C8: analyzeQuery returns an AST iff it returns no diagnostic; a failed  *)
(* build returns exactly one error diagnostic, with the code of the        *)
(* failure, or AST_BUILD_FAILED over the whole input for an unexpected     *)
(* internal error.                                                         *)
(***************************************************************************)
BuildFailureCodes ==
    {"UNKNOWN_MACRO_ALIAS", "MACRO_EXPANSION_CYCLE", "MACRO_EXPANSION_DEPTH_EXCEEDED",
     "DUPLICATE_MACRO_ALIAS", "INVALID_MACRO_EXPANSION", "INVALID_BOOLEAN_FIELD_SHORTHAND"}

\* The text parses without an error node and without unparsed input.
ParsesCleanly(src) ==
    collectSyntaxDiagnostics(parse(src), TextOfSource(src)) = <<>>

C8_NoPartialAst ==
    Returned =>
       /\ (result.ast # NullAst) <=> (result.syntaxDiagnostics = <<>>)
       /\ (result.ast = NullAst /\ ParsesCleanly(querySource)) =>
             /\ Len(result.syntaxDiagnostics) = 1
             /\ result.syntaxDiagnostics[1].severity = "error"
             /\ IF languageSpec = Undefined
                THEN /\ result.syntaxDiagnostics[1].code = "AST_BUILD_FAILED"
                     /\ result.syntaxDiagnostics[1].from = 0
                     /\ result.syntaxDiagnostics[1].to =
                           Max(1, Len(TextOfSource(querySource)))
                ELSE result.syntaxDiagnostics[1].code \in BuildFailureCodes

\* A build that failed in an expansion, after part of the AST was built.
C8_Witness ==
    /\ Returned
    /\ querySource = SrcComparisonOrCall(1)
    /\ FailsWith(result, "UNKNOWN_MACRO_ALIAS")

(***************************************************************************)
(* Properties of the engine.                                               *)
(***************************************************************************)
EngineReturned(op) == enginePc = "done" /\ request.op = op

(***************************************************************************)
(* C7: whenever the diagnostics an operation returns (analyzeQuery,        *)
(* decodeAndValidateEnvelope, compile) hold an ERROR, the output it        *)
(* returns with them (ast, envelope, ir) is null.                          *)
(***************************************************************************)
C7_ErrorDiscardsOutput ==
    /\ Returned =>
          ((\E i \in 1..Len(result.syntaxDiagnostics) :
               result.syntaxDiagnostics[i].severity = "error")
             => result.ast = NullAst)
    /\ EngineReturned("compile") =>
          (HasError(engineResult.diagnostics) => engineResult.ir = Null)
    /\ EngineReturned("decodeAndValidateEnvelope") =>
          (HasError(engineResult.diagnostics) => engineResult.envelope = Null)

(***************************************************************************)
(* C9: compile returns success with an ir iff the structural and the       *)
(* semantic validation of the envelope both give no ERROR; otherwise it    *)
(* returns no success, a null ir and the diagnostics of the first stage    *)
(* that failed. No AST that failed a validation is passed to the lowering. *)
(***************************************************************************)
C9_CompileGates ==
    LET structural == validateStructure(request.ast, engineCeilings)
        semantic == SemanticValidate(request.ast, request.spec).diagnostics
    IN  /\ lowered # <<>> =>
              /\ lowered = <<request.ast.root>>
              /\ ~HasError(structural)
              /\ ~HasError(semantic)
        /\ EngineReturned("compile") =>
              /\ engineResult.success <=> (~HasError(structural) /\ ~HasError(semantic))
              /\ engineResult.success =>
                    /\ engineResult.ir = IrCompile(request.ast.root)
                    /\ engineResult.ir # Null
                    /\ engineResult.diagnostics = <<>>
              /\ ~engineResult.success =>
                    /\ engineResult.ir = Null
                    /\ engineResult.diagnostics =
                          IF HasError(structural) THEN structural ELSE semantic

\* compile has returned the diagnostics of the semantic validation, the
\* structural one having passed.
C9_Witness ==
    /\ EngineReturned("compile")
    /\ ~engineResult.success
    /\ structure = <<>>
    /\ engineResult.diagnostics = semantics.diagnostics
    /\ engineResult.diagnostics # <<>>

\* The checks of the structural validator, read off an envelope.
RECURSIVE ValueCount(_)
RECURSIVE ItemsCount(_, _)
ItemsCount(items, i) ==
    IF i > Len(items) THEN 0 ELSE ValueCount(items[i]) + ItemsCount(items, i + 1)
ValueCount(value) ==
    IF value.kind = "list" THEN 1 + ItemsCount(value.items, 1) ELSE 1

RECURSIVE NodeCount(_)
NodeCount(node) ==
    CASE node.kind = "comparison" -> 1 + ValueCount(node.value)
      [] node.kind = "logical" -> 1 + NodeCount(node.left) + NodeCount(node.right)
      [] node.kind = "not" -> 1 + NodeCount(node.expression)

\* What the checks look at in a node or value at `depth`: its spans, its
\* operator if it is a comparison, its text if it is a string literal.
NodeFact(node, depth) ==
    [depth |-> depth,
     spans |-> IF node.kind = "comparison" THEN {node.span, node.field.span}
               ELSE {node.span},
     operators |-> IF node.kind = "comparison" THEN {node.operator} ELSE {},
     strings |-> {}]

ValueFact(value, depth) ==
    [depth |-> depth, spans |-> {value.span}, operators |-> {},
     strings |-> IF value.kind = "stringLiteral" THEN {value.value} ELSE {}]

RECURSIVE ValueFacts(_, _)
ValueFacts(value, depth) ==
    {ValueFact(value, depth)}
    \cup IF value.kind = "list"
         THEN UNION {ValueFacts(value.items[i], depth + 1) : i \in 1..Len(value.items)}
         ELSE {}

RECURSIVE NodeFacts(_, _)
NodeFacts(node, depth) ==
    {NodeFact(node, depth)}
    \cup CASE node.kind = "comparison" -> ValueFacts(node.value, depth + 1)
           [] node.kind = "logical" ->
                NodeFacts(node.left, depth + 1) \cup NodeFacts(node.right, depth + 1)
           [] node.kind = "not" -> NodeFacts(node.expression, depth + 1)

BadSpan(span, rawLength) ==
    span # Null /\ ~(0 <= span.from /\ span.from <= span.to /\ span.to <= rawLength)

Violates(check, envelope, ceilings) ==
    LET rawLength == Len(envelope.source.rawQuery)
        facts == NodeFacts(envelope.root, 1)
    IN  CASE check = "UNSUPPORTED_AST_VERSION" ->
               envelope.astVersion \notin ceilings.supportedAstVersions
          [] check = "MISSING_GRAMMAR_VERSION" -> isBlank(envelope.grammarVersion)
          [] check = "RAW_QUERY_TOO_LARGE" -> rawLength > ceilings.maxRawQueryLength
          [] check = "AST_TOO_LARGE" -> NodeCount(envelope.root) > ceilings.maxNodeCount
          [] check = "AST_TOO_DEEP" ->
               \E fact \in facts : fact.depth > ceilings.maxDepth
          [] check = "INVALID_SPAN" ->
               \E fact \in facts : \E span \in fact.spans : BadSpan(span, rawLength)
          [] check = "EMPTY_OPERATOR" ->
               \E fact \in facts : \E operator \in fact.operators : isBlank(operator)
          [] check = "STRING_LITERAL_TOO_LARGE" ->
               \E fact \in facts : \E text \in fact.strings :
                  Len(text) > ceilings.maxStringLiteralLength
          [] check = "UNSUPPORTED_PARSER_METADATA" ->
               envelope.metadata # Null /\ envelope.metadata.parser # W_lezer
          [] check = "INVALID_METADATA" ->
               /\ envelope.metadata # Null
               /\ ~(envelope.metadata.nodeCount > 0 /\ envelope.metadata.maxDepth > 0)

StructureChecks ==
    {"UNSUPPORTED_AST_VERSION", "MISSING_GRAMMAR_VERSION", "RAW_QUERY_TOO_LARGE",
     "AST_TOO_LARGE", "AST_TOO_DEEP", "INVALID_SPAN", "EMPTY_OPERATOR",
     "STRING_LITERAL_TOO_LARGE", "UNSUPPORTED_PARSER_METADATA", "INVALID_METADATA"}

ViolatedChecks(envelope, ceilings) ==
    {check \in StructureChecks : Violates(check, envelope, ceilings)}

(***************************************************************************)
(* C10: the codes the structural validator returns for an envelope are     *)
(* the checks the envelope violates, all of them, whether it is validated  *)
(* by compile or after decoding.                                           *)
(***************************************************************************)
C10_AllChecksAccumulated ==
    /\ (request.op = "compile" /\ enginePc \in {"semantics", "lower", "done"}) =>
          Codes(structure) = ViolatedChecks(request.ast, engineCeilings)
    /\ (EngineReturned("decodeAndValidateEnvelope") /\ engineResult.envelope # Null) =>
          Codes(engineResult.diagnostics) =
             ViolatedChecks(engineResult.envelope, engineCeilings)

\* An envelope that violates every check has been validated.
C10_Witness ==
    /\ EngineReturned("compile")
    /\ Codes(structure) = StructureChecks

(***************************************************************************)
(* C1: after any new analysis pass the outcome of an earlier remote check  *)
(* is discarded, so the last diagnostics delivered always belong to the    *)
(* latest text.                                                            *)
(***************************************************************************)
C1_LastDeliveredIsLatestText == delivered.query = doc

(***************************************************************************)
(* Properties of the structural walk and of the semantic validation.      *)
(***************************************************************************)
\* The diagnostics of `code` in a list.
CountOf(diagnostics, code) ==
    Cardinality({i \in 1..Len(diagnostics) : diagnostics[i].code = code})

\* The depths of what a tree holds, one for each AST node, each comparison
\* value and each list item: the root at `depth`, a value one below its
\* comparison, an item one below its list.
RECURSIVE ValueDepths(_, _)
RECURSIVE ItemDepths(_, _, _)
ItemDepths(items, i, depth) ==
    IF i > Len(items) THEN <<>>
    ELSE ValueDepths(items[i], depth) \o ItemDepths(items, i + 1, depth)
ValueDepths(value, depth) ==
    <<depth>> \o IF value.kind = "list" THEN ItemDepths(value.items, 1, depth + 1)
                 ELSE <<>>

RECURSIVE NodeDepths(_, _)
NodeDepths(node, depth) ==
    <<depth>> \o CASE node.kind = "comparison" -> ValueDepths(node.value, depth + 1)
                   [] node.kind = "logical" ->
                        NodeDepths(node.left, depth + 1) \o NodeDepths(node.right, depth + 1)
                   [] node.kind = "not" -> NodeDepths(node.expression, depth + 1)

\* The envelope whose structure has been validated, and the diagnostics of
\* that validation: by compile, or by decodeAndValidateEnvelope.
StructureValidated ==
    \/ request.op = "compile" /\ enginePc \in {"semantics", "lower", "done"}
    \/ EngineReturned("decodeAndValidateEnvelope") /\ engineResult.envelope # Null

ValidatedEnvelope ==
    IF request.op = "compile" THEN request.ast ELSE engineResult.envelope

StructuralDiagnostics ==
    IF request.op = "compile" THEN structure ELSE engineResult.diagnostics

(***************************************************************************)
(* C11: the walk counts every AST node, comparison value and list item,    *)
(* the root at depth 1, a value one level below its comparison and list    *)
(* items one level below the list. AST_TOO_LARGE is reported (once) iff    *)
(* the count exceeds maxNodeCount, and AST_TOO_DEEP iff something lies     *)
(* deeper than maxDepth (once for each node or value that does).           *)
(***************************************************************************)
C11_CountAndDepth ==
    StructureValidated =>
       LET depths == NodeDepths(ValidatedEnvelope.root, 1)
           deep == {i \in 1..Len(depths) : depths[i] > engineCeilings.maxDepth}
       IN  /\ CountOf(StructuralDiagnostics, "AST_TOO_LARGE") =
                 IF Len(depths) > engineCeilings.maxNodeCount THEN 1 ELSE 0
           /\ (CountOf(StructuralDiagnostics, "AST_TOO_DEEP") > 0) <=> (deep # {})
           /\ CountOf(StructuralDiagnostics, "AST_TOO_DEEP") = Cardinality(deep)

\* A tree of exactly maxNodeCount nodes whose deepest value lies exactly at
\* maxDepth has been validated, and neither ceiling is reported.
C11_Witness ==
    /\ StructureValidated
    /\ Len(NodeDepths(ValidatedEnvelope.root, 1)) = engineCeilings.maxNodeCount
    /\ \E i \in 1..engineCeilings.maxNodeCount :
          NodeDepths(ValidatedEnvelope.root, 1)[i] = engineCeilings.maxDepth
    /\ {"AST_TOO_LARGE", "AST_TOO_DEEP"} \cap Codes(StructuralDiagnostics) = {}

\* The comparisons of a tree, in the order of the walk.
RECURSIVE ComparisonsOf(_)
ComparisonsOf(node) ==
    CASE node.kind = "comparison" -> <<node>>
      [] node.kind = "logical" -> ComparisonsOf(node.left) \o ComparisonsOf(node.right)
      [] node.kind = "not" -> ComparisonsOf(node.expression)

\* The semantic validation has run, by validateSemantics or inside compile;
\* its result; and the envelope and spec it was given.
SemanticsValidated ==
    \/ EngineReturned("validateSemantics")
    \/ request.op = "compile" /\ enginePc = "lower"
    \/ EngineReturned("compile") /\ ~HasError(structure)

SemanticResult == IF request.op = "compile" THEN semantics ELSE engineResult

\* The codes of a list of diagnostics, in order.
CodeList(diagnostics) == [i \in 1..Len(diagnostics) |-> diagnostics[i].code]

\* The spec declares a field of the name.
Declares(spec, name) == \E i \in 1..Len(spec.fields) : spec.fields[i].name = name

\* What the validator answers for one comparison validated on its own.
AloneDiagnostics(comparison) ==
    SemanticValidate([request.ast EXCEPT !.root = comparison], request.spec).diagnostics

RECURSIVE AloneFrom(_, _)
AloneFrom(comparisons, i) ==
    IF i > Len(comparisons) THEN <<>>
    ELSE AloneDiagnostics(comparisons[i]) \o AloneFrom(comparisons, i + 1)

(***************************************************************************)
(* C12: a comparison whose field the spec does not declare produces        *)
(* exactly one diagnostic, UNKNOWN_FIELD, and nothing about its operator,  *)
(* list, type or enum; the other comparisons of the tree are validated as  *)
(* they would be on their own.                                             *)
(***************************************************************************)
C12_UnknownFieldStops ==
    SemanticsValidated =>
       LET comparisons == ComparisonsOf(request.ast.root)
       IN  /\ SemanticResult.diagnostics = AloneFrom(comparisons, 1)
           /\ \A i \in 1..Len(comparisons) :
                 ~Declares(request.spec, comparisons[i].field.name) =>
                    /\ CodeList(AloneDiagnostics(comparisons[i])) = <<"UNKNOWN_FIELD">>
                    /\ AloneDiagnostics(comparisons[i])[1].severity = "ERROR"
           /\ CountOf(SemanticResult.diagnostics, "UNKNOWN_FIELD") =
                 Cardinality({i \in 1..Len(comparisons) :
                                ~Declares(request.spec, comparisons[i].field.name)})

\* A tree of two comparisons has been validated: the first, on an undeclared
\* field with IN and a scalar, gave UNKNOWN_FIELD alone; the second gave a
\* diagnostic of its own.
C12_Witness ==
    /\ SemanticsValidated
    /\ request.ast.root.kind = "logical"
    /\ request.ast.root.left.kind = "comparison"
    /\ request.ast.root.left.operator = W_IN
    /\ ~Declares(request.spec, request.ast.root.left.field.name)
    /\ CodeList(SemanticResult.diagnostics) = <<"UNKNOWN_FIELD", "INVALID_ENUM_VALUE">>

\* The comparisons of the tree validated whose field the spec declares, by
\* their place in the walk.
DeclaredComparisons ==
    {i \in 1..Len(ComparisonsOf(request.ast.root)) :
       Declares(request.spec, ComparisonsOf(request.ast.root)[i].field.name)}

\* The operators a comparison on `field` may use, as a set of texts.
AllowedSet(field, spec) ==
    IF "operators" \in DOMAIN field
    THEN {field.operators[i] : i \in 1..Len(field.operators)}
    ELSE IF field.type \in DOMAIN spec.operatorsByType
    THEN {spec.operatorsByType[field.type][i] :
            i \in 1..Len(spec.operatorsByType[field.type])}
    ELSE {}

(***************************************************************************)
(* C13: for a comparison on a declared field the allowed operators are     *)
(* field.operators when the field declares them, even if there are none,   *)
(* and spec.operatorsByType[field.type] otherwise (none when the type has  *)
(* no entry); UNSUPPORTED_OPERATOR is reported iff the operator is not     *)
(* exactly one of them.                                                    *)
(***************************************************************************)
C13_AllowedOperators ==
    SemanticsValidated =>
       LET comparisons == ComparisonsOf(request.ast.root)
           Unsupported(c) ==
              c.operator \notin AllowedSet(fieldsByName(request.spec, c.field.name),
                                           request.spec)
       IN  /\ CountOf(SemanticResult.diagnostics, "UNSUPPORTED_OPERATOR") =
                 Cardinality({i \in DeclaredComparisons : Unsupported(comparisons[i])})
           /\ \A i \in DeclaredComparisons :
                 ("UNSUPPORTED_OPERATOR" \in Codes(AloneDiagnostics(comparisons[i])))
                    <=> Unsupported(comparisons[i])

\* A comparison with "=" on a string field that declares an empty list of
\* operators, in a spec that allows "=" for strings, has been rejected.
C13_Witness ==
    /\ SemanticsValidated
    /\ request.ast.root.kind = "comparison"
    /\ request.ast.root.operator = W_eq
    /\ Declares(request.spec, request.ast.root.field.name)
    /\ LET field == fieldsByName(request.spec, request.ast.root.field.name)
       IN  /\ "operators" \in DOMAIN field
           /\ field.operators = <<>>
           /\ W_eq \in Range(request.spec.operatorsByType[field.type])
    /\ "UNSUPPORTED_OPERATOR" \in Codes(SemanticResult.diagnostics)

\* The operator is exactly IN or NOT IN.
IsListOperator(operator) == operator \in {W_IN, W_NOT_IN}

(***************************************************************************)
(* C14: for a comparison on a declared field, a list value yields          *)
(* LIST_OPERATOR_MISMATCH iff the operator is neither exactly IN nor       *)
(* NOT IN, and EMPTY_LIST iff it has no items; a scalar value yields       *)
(* SCALAR_OPERATOR_MISMATCH iff the operator is exactly IN or NOT IN; and  *)
(* so whether or not UNSUPPORTED_OPERATOR is reported as well.             *)
(***************************************************************************)
C14_ListAndScalarOperators ==
    SemanticsValidated =>
       LET comparisons == ComparisonsOf(request.ast.root)
           IsList(c) == c.value.kind = "list"
           Expected(c) ==
              {code \in {"LIST_OPERATOR_MISMATCH", "EMPTY_LIST", "SCALAR_OPERATOR_MISMATCH"} :
                 CASE code = "LIST_OPERATOR_MISMATCH" ->
                        IsList(c) /\ ~IsListOperator(c.operator)
                   [] code = "EMPTY_LIST" -> IsList(c) /\ Len(c.value.items) = 0
                   [] code = "SCALAR_OPERATOR_MISMATCH" ->
                        ~IsList(c) /\ IsListOperator(c.operator)}
       IN  /\ \A code \in {"LIST_OPERATOR_MISMATCH", "EMPTY_LIST", "SCALAR_OPERATOR_MISMATCH"} :
                 CountOf(SemanticResult.diagnostics, code) =
                    Cardinality({i \in DeclaredComparisons : code \in Expected(comparisons[i])})
           /\ \A i \in DeclaredComparisons :
                 Codes(AloneDiagnostics(comparisons[i]))
                    \cap {"LIST_OPERATOR_MISMATCH", "EMPTY_LIST", "SCALAR_OPERATOR_MISMATCH"}
                 = Expected(comparisons[i])

\* An empty list compared with an operator that is neither allowed nor a
\* list operator ("NOT  IN", two spaces) got all three diagnostics.
C14_Witness ==
    /\ SemanticsValidated
    /\ request.ast.root.kind = "comparison"
    /\ request.ast.root.operator = W_NOT__IN
    /\ {"UNSUPPORTED_OPERATOR", "LIST_OPERATOR_MISMATCH", "EMPTY_LIST"}
          \subseteq Codes(SemanticResult.diagnostics)

\* The values of a comparison that are checked as scalars: the value itself,
\* or each item of the list it is.
CheckedValues(comparison) ==
    IF comparison.value.kind = "list" THEN comparison.value.items
    ELSE <<comparison.value>>

\* The values checked in the tree validated, for the comparisons on declared
\* fields: <<i, j>> is value j of comparison i.
CheckedPlaces ==
    UNION {{<<i, j>> : j \in 1..Len(CheckedValues(ComparisonsOf(request.ast.root)[i]))} :
             i \in DeclaredComparisons}

CheckedAt(place) == CheckedValues(ComparisonsOf(request.ast.root)[place[1]])[place[2]]

FieldAt(place) ==
    fieldsByName(request.spec, ComparisonsOf(request.ast.root)[place[1]].field.name)

\* The literal a field type requires.
RequiredKind(type) ==
    CASE type = "STRING" -> "stringLiteral"
      [] type = "NUMBER" -> "numberLiteral"
      [] type = "BOOLEAN" -> "booleanLiteral"

(***************************************************************************)
(* C15: for a comparison on a declared field every scalar value and every  *)
(* item of a list value is checked against the type of the field:          *)
(* TYPE_MISMATCH is reported once for each of them that is not the literal *)
(* the type requires, and for no other value.                              *)
(***************************************************************************)
C15_TypeMismatch ==
    SemanticsValidated =>
       CountOf(SemanticResult.diagnostics, "TYPE_MISMATCH") =
          Cardinality({place \in CheckedPlaces :
                         CheckedAt(place).kind # RequiredKind(FieldAt(place).type)})

\* A list of a string and a number compared with a string field: one
\* TYPE_MISMATCH, for the number.
C15_Witness ==
    /\ SemanticsValidated
    /\ request.ast.root.kind = "comparison"
    /\ request.ast.root.value.kind = "list"
    /\ Len(request.ast.root.value.items) = 2
    /\ Declares(request.spec, request.ast.root.field.name)
    /\ fieldsByName(request.spec, request.ast.root.field.name).type = "STRING"
    /\ request.ast.root.value.items[1].kind = "stringLiteral"
    /\ request.ast.root.value.items[2].kind = "numberLiteral"
    /\ CountOf(SemanticResult.diagnostics, "TYPE_MISMATCH") = 1

\* The value at a place is a string literal outside the enumValues its field
\* declares.
OutsideEnum(place) ==
    /\ "enumValues" \in DOMAIN FieldAt(place)
    /\ CheckedAt(place).kind = "stringLiteral"
    /\ \A k \in 1..Len(FieldAt(place).enumValues) :
          FieldAt(place).enumValues[k] # CheckedAt(place).value

(***************************************************************************)
(* C16: for a comparison on a field that declares enumValues,              *)
(* INVALID_ENUM_VALUE is reported for each string literal (the scalar      *)
(* value or an item of the list value) that is not one of them, and the    *)
(* result is then invalid; a string among the enumValues, and a field      *)
(* without enumValues, never give INVALID_ENUM_VALUE.                      *)
(***************************************************************************)
C16_EnumValues ==
    SemanticsValidated =>
       /\ CountOf(SemanticResult.diagnostics, "INVALID_ENUM_VALUE") =
             Cardinality({place \in CheckedPlaces : OutsideEnum(place)})
       /\ (\E place \in CheckedPlaces : OutsideEnum(place)) => ~SemanticResult.valid
       /\ \A i \in 1..Len(SemanticResult.diagnostics) :
             SemanticResult.diagnostics[i].code = "INVALID_ENUM_VALUE" =>
                SemanticResult.diagnostics[i].severity = "ERROR"

\* status = "Nope", with status declared over Open and Closed: the one
\* diagnostic is INVALID_ENUM_VALUE and the result is invalid.
C16_Witness ==
    /\ SemanticsValidated
    /\ request.ast.root.kind = "comparison"
    /\ request.ast.root.value.kind = "stringLiteral"
    /\ CodeList(SemanticResult.diagnostics) = <<"INVALID_ENUM_VALUE">>
    /\ ~SemanticResult.valid

(***************************************************************************)
(* Properties of the boolean shorthand.                                    *)
(***************************************************************************)
\* The node being built is a comparison of a field and nothing else.
IsBareField(node) ==
    /\ node.name = "Comparison"
    /\ HasChild(node, "Field")
    /\ ~HasChild(node, "CompareOperator")
    /\ ~HasChild(node, "InOperator")

\* The name written in a bare field reference, and the span of its field.
BareFieldName(node, input) ==
    textOf(getChild(getChild(node, "Field"), "Identifier"), input)

BareFieldSpan(node) == spanOf(getChild(node, "Field"))

\* The spec declares the field with type boolean.
DeclaredBoolean(spec, name) ==
    \E i \in 1..Len(spec.fields) :
       spec.fields[i].name = name /\ spec.fields[i].type = "boolean"

\* comparison{field, "=", booleanLiteral true}, as built of a bare field
ShorthandComparison(node, input) ==
    [kind |-> "comparison",
     field |-> [kind |-> "fieldRef", name |-> BareFieldName(node, input),
                span |-> BareFieldSpan(node)],
     operator |-> W_eq,
     value |-> [kind |-> "booleanLiteral", value |-> TRUE, span |-> BareFieldSpan(node)],
     span |-> spanOf(node)]

(***************************************************************************)
(* C17: a comparison node with a field and no operator is built as         *)
(* comparison{field, "=", booleanLiteral true} iff the language spec       *)
(* declares the field with type boolean; for a field of another type or    *)
(* one the spec does not declare the build fails with                      *)
(* INVALID_BOOLEAN_FIELD_SHORTHAND on the span of the field and a null     *)
(* ast.                                                                    *)
(***************************************************************************)
C17_BooleanShorthand ==
    [][(Evaluating("Comparison") /\ IsBareField(control) /\ languageSpec # Undefined) =>
          IF DeclaredBoolean(languageSpec, BareFieldName(control, buildInput))
          THEN /\ phase' = "build"
               /\ mode' = "return"
               /\ control' = ShorthandComparison(control, buildInput)
          ELSE /\ phase' = "done"
               /\ FailsWith(result', "INVALID_BOOLEAN_FIELD_SHORTHAND")
               /\ result'.syntaxDiagnostics[1].from = BareFieldSpan(control).from
               /\ result'.syntaxDiagnostics[1].to = BareFieldSpan(control).to]_vars

\* The query `archived` has been analysed: the root is archived = true.
C17_Witness ==
    /\ ReturnedAst
    /\ querySource = SrcBare(W_archived)
    /\ result.ast.root.kind = "comparison"
    /\ result.ast.root.field.name = W_archived
    /\ result.ast.root.operator = W_eq
    /\ result.ast.root.value = [kind |-> "booleanLiteral", value |-> TRUE,
                                span |-> Span(0, Len(W_archived))]

\* The NotExpression node has NOT directly before a bare field reference.
IsNotBareField(node) ==
    /\ node.name = "NotExpression"
    /\ HasChild(node, "NotOp")
    /\ HasChild(node, "Primary")
    /\ HasChild(getChild(node, "Primary"), "Comparison")
    /\ IsBareField(getChild(getChild(node, "Primary"), "Comparison"))

\* The frame on top of the continuation is that of such a NOT.
InNotBareField == kont # <<>> /\ Head(kont).k = "not" /\ IsNotBareField(Head(kont).node)

\* The queries NOT f of the fields tried.
NotBareFields == {W_archived, W_status, W_unknown, W_count}

C19_NotBareFieldRejected ==
    (/\ Returned
     /\ querySource = SrcNotBare(W_archived)
     /\ languageSpec # Undefined
     /\ DeclaredBoolean(languageSpec, W_archived)) =>
       /\ result.ast = NullAst
       /\ Len(result.syntaxDiagnostics) > 0

\* Two entries of spec.functions have the same name.
HasDuplicateAlias(spec) ==
    \E i, j \in 1..Len(spec.functions) :
       i # j /\ spec.functions[i].name = spec.functions[j].name

(***************************************************************************)
(* C20: if spec.functions holds two entries of one name, analysing any     *)
(* query without syntax errors returns a null ast and the single           *)
(* diagnostic DUPLICATE_MACRO_ALIAS, before anything is built, whether the *)
(* query calls the alias, another alias or none.                           *)
(***************************************************************************)
C20_DuplicateAliasFailsClosed ==
    (/\ languageSpec # Undefined
     /\ HasDuplicateAlias(languageSpec)
     /\ ParsesCleanly(querySource)) =>
       /\ phase # "build"
       /\ Returned =>
             /\ FailsWith(result, "DUPLICATE_MACRO_ALIAS")
             /\ result.syntaxDiagnostics[1].from = 0
             /\ result.syntaxDiagnostics[1].to = Max(1, Len(TextOfSource(querySource)))

\* A query that calls no macro has failed on the duplicate.
C20_Witness ==
    /\ Returned
    /\ querySource = SrcComparison
    /\ languageSpec # Undefined
    /\ HasDuplicateAlias(languageSpec)
    /\ FailsWith(result, "DUPLICATE_MACRO_ALIAS")

(***************************************************************************)
(* Properties of the editor's remote semantic check.                       *)
(***************************************************************************)
\* The request that is the latest one: no later check has been scheduled.
LatestInflight == {r \in inflight : r.requestSeq = semanticSeq}

\* The diagnostics are those given, followed by one warning of the failed
\* callback that spans the query.
EndsWithCallbackWarning(diagnostics, base, query) ==
    /\ Len(diagnostics) = Len(base) + 1
    /\ SubSeq(diagnostics, 1, Len(base)) = base
    /\ LET warning == diagnostics[Len(diagnostics)]
       IN /\ warning.code = "SEMANTIC_CALLBACK_FAILED"
          /\ warning.severity = "warning"
          /\ warning.source = "semantic"
          /\ warning.from = 0
          /\ warning.to >= Len(query)
          /\ warning.to > warning.from
    /\ \A i \in 1..Len(base) : diagnostics[i].code # "SEMANTIC_CALLBACK_FAILED"

OneTimerPending ==
    /\ Cardinality(timers) <= 1
    /\ \A t \in timers : t.id = debounceTimerRef

\* Scheduling a check leaves only the new timer pending.
SchedulingCancels ==
    [][semanticSeq' # semanticSeq =>
          /\ Cardinality(timers') = 1
          /\ \A t \in timers' : t.requestSeq = semanticSeq' /\ t.query = doc']_vars

\* The timer whose callback runs in this step, if any.
FiringTimers == {t \in timers : t \notin timers' /\ inflight' # inflight}

(***************************************************************************)
(* C22: a burst of keystrokes, each less than 150 ms after the previous    *)
(* one, starts at most one validateSemantics call, and that call is for    *)
(* the text of the last keystroke of the burst: when a timer fires and the *)
(* latest document change came before the timer's delay had elapsed, the   *)
(* call is for the document as it is.                                      *)
(***************************************************************************)
C22_BurstChecksLastText ==
    [][\A t \in FiringTimers :
          lastChange < t.deadline => t.query = doc]_vars

(***************************************************************************)
(* Properties of the completion source.                                    *)
(***************************************************************************)
CompletionReturned == completionPc = "done"

\* The options returned; a null result has none.
OptionsOf(completion) == IF completion = Null THEN <<>> ELSE completion.options

\* The key of an item as the triple of label, type and apply.
ItemTriple(item) == <<item.label, OrEmpty(item, "type"), OrEmpty(item, "apply")>>

\* The places of a list whose item has a key no earlier item has.
FirstPlaces(items) ==
    {i \in 1..Len(items) :
       \A j \in 1..(i - 1) : ItemTriple(items[j]) # ItemTriple(items[i])}

\* The k-th of the first places, in the order of the list.
FirstPlace(items, k) ==
    CHOOSE i \in FirstPlaces(items) :
       Cardinality({j \in FirstPlaces(items) : j <= i}) = k

\* The options begin with the local items, each key once, in their order.
LocalItemsFirst(options, local) ==
    /\ Len(options) >= Cardinality(FirstPlaces(local))
    /\ \A k \in 1..Cardinality(FirstPlaces(local)) :
          options[k] = local[FirstPlace(local, k)]

SyntaxReturned == syntaxPc = "done"

\* The cursor of the call.
ClassifiedCursor ==
    parseCursor(parse(ClassifierSources[syntaxArgs.source]),
                TextOfSource(ClassifierSources[syntaxArgs.source]), syntaxArgs.pos)

\* The conditions of the contexts, in the order of their priority.
ContextConditions(cursor, spec) ==
    <<isInListValueElementStartContext(cursor),
      isClauseStartContext(cursor),
      isAfterNotKeywordContext(cursor),
      fieldNameAtTrimmedIdentifier(cursor, spec) # Null,
      cursor.trailingIdentifier # <<>> /\ inferPartialIdentifierContext(cursor) # "null",
      isAfterInOperatorContext(cursor),
      isAfterCompareOperatorContext(cursor),
      isClauseBoundaryContext(cursor)>>

ContextKinds ==
    <<{"inListValueStart"}, {"clauseStart"}, {"afterNot"}, {"afterField"},
      {"partialClauseStart", "partialAfterNot"}, {"afterInOperator"},
      {"afterCompareOperator"}, {"clauseBoundary"}>>

HoldingConditions ==
    {k \in 1..Len(ContextKinds) :
       ContextConditions(ClassifiedCursor, CompletionSpecs[syntaxArgs.spec])[k]}

\* The paths of the nodes of a tree.
RECURSIVE PathsBelow(_, _)
PathsBelow(node, path) ==
    {path} \cup UNION {PathsBelow(node.children[i], Append(path, i)) :
                         i \in 1..Len(node.children)}

\* The last character before the cursor that is not whitespace is the "("
\* or a "," of the list of an IN or NOT IN comparison.
RightAfterListOpener(cursor) ==
    \E path \in PathsBelow(cursor.tree, <<>>) :
       /\ Len(path) >= 2
       /\ NodeAtPath(cursor.tree, path).name \in {"(", ","}
       /\ NodeAtPath(cursor.tree, path).to = cursor.trimmedPos
       /\ NodeAtPath(cursor.tree, SubSeq(path, 1, Len(path) - 1)).name = "ListLiteral"
       /\ LET comparison == NodeAtPath(cursor.tree, SubSeq(path, 1, Len(path) - 2))
          IN /\ comparison.name = "Comparison"
             /\ \E i \in 1..Len(comparison.children) :
                   comparison.children[i].name = "InOperator"

(***************************************************************************)
(* C24: the context returned for a tree, a text and a cursor offset is one *)
(* context, that of the first condition that holds in the order            *)
(* inListValueStart, clauseStart, afterNot, afterField, partialClauseStart *)
(* or partialAfterNot, afterInOperator, afterCompareOperator,              *)
(* clauseBoundary, and fallback exactly when none holds. A cursor right    *)
(* after the "(" or a "," of the list of an IN or NOT IN comparison is     *)
(* inListValueStart.                                                       *)
(***************************************************************************)
C24_FirstMatchingContext ==
    SyntaxReturned =>
       /\ IF HoldingConditions = {}
          THEN syntaxContext.kind = "fallback"
          ELSE syntaxContext.kind \in
                  ContextKinds[CHOOSE k \in HoldingConditions :
                                  \A other \in HoldingConditions : k <= other]
       /\ RightAfterListOpener(ClassifiedCursor) => syntaxContext.kind = "inListValueStart"

\* After the "(" of a list inside an open group the conditions of the list
\* value start and of the clause start both hold.
C24_Witness ==
    /\ SyntaxReturned
    /\ {1, 2} \subseteq HoldingConditions
    /\ RightAfterListOpener(ClassifiedCursor)
    /\ syntaxContext.kind = "inListValueStart"
    /\ syntaxContext.fieldName = W_status

(***************************************************************************)
(* Properties of the lowering to the IR.                                   *)
(***************************************************************************)
\* The IR value is the value lowered: the same kind and value, the items of
\* a list in their order, and nothing else.
RECURSIVE LowersValue(_, _)
LowersValue(value, ir) ==
    CASE value.kind = "list" ->
           /\ DOMAIN ir = {"kind", "items"}
           /\ ir.kind = "irList"
           /\ Len(ir.items) = Len(value.items)
           /\ \A i \in 1..Len(value.items) : LowersValue(value.items[i], ir.items[i])
      [] OTHER ->
           /\ DOMAIN ir = {"kind", "value"}
           /\ ir.kind = CASE value.kind = "stringLiteral" -> "irString"
                          [] value.kind = "numberLiteral" -> "irNumber"
                          [] value.kind = "booleanLiteral" -> "irBoolean"
           /\ ir.value = value.value

\* The IR node is the AST node lowered: the same shape, names and operators,
\* the children in their order, and no span.
RECURSIVE LowersNode(_, _)
LowersNode(node, ir) ==
    CASE node.kind = "comparison" ->
           /\ DOMAIN ir = {"kind", "field", "operator", "value"}
           /\ ir.kind = "irComparison"
           /\ ir.field = node.field.name
           /\ ir.operator = node.operator
           /\ LowersValue(node.value, ir.value)
      [] node.kind = "logical" ->
           /\ DOMAIN ir = {"kind", "operator", "left", "right"}
           /\ ir.kind = "irLogical"
           /\ ir.operator = node.operator
           /\ LowersNode(node.left, ir.left)
           /\ LowersNode(node.right, ir.right)
      [] node.kind = "not" ->
           /\ DOMAIN ir = {"kind", "expression"}
           /\ ir.kind = "irNot"
           /\ LowersNode(node.expression, ir.expression)

(***************************************************************************)
(* C25: the IR compile returns has the shape of the AST: a comparison      *)
(* becomes an irComparison of the same field name and operator, a logical  *)
(* or not node keeps its operator and its children in their order, a       *)
(* literal becomes the IR value of its kind and value, a list keeps the    *)
(* number and order of its items, and no span is carried over.             *)
(***************************************************************************)
C25_LoweringPreservesStructure ==
    (EngineReturned("compile") /\ engineResult.success) =>
       LowersNode(request.ast.root, engineResult.ir)

\* A logical node of two different children has been lowered.
C25_Witness ==
    /\ EngineReturned("compile")
    /\ engineResult.success
    /\ request.ast.root.kind = "logical"
    /\ request.ast.root.left.kind = "comparison"
    /\ request.ast.root.right.kind = "not"
    /\ engineResult.ir.right.kind = "irNot"

(***************************************************************************)
(* Properties of the wire format.                                          *)
(***************************************************************************)
\* The envelopes whose wire text is the text of the request.
EncodedEnvelopes ==
    {EnvelopeOf(choice) : choice \in
        {c \in EnvelopeChoices : encodeToString(EnvelopeOf(c)) = request.json}}

(***************************************************************************)
(* C26: an envelope encoded to the wire format and decoded again is the    *)
(* envelope it was, field for field: the versions, the raw query, every    *)
(* node, operator and value, every span present or absent, the metadata.   *)
(***************************************************************************)
C26_RoundTrip ==
    EngineReturned("decodeAndValidateEnvelope") =>
       \A envelope \in EncodedEnvelopes : engineResult.envelope = envelope

\* An envelope with a logical node, spans present and absent and metadata
\* has made the round trip.
C26_Witness ==
    /\ EngineReturned("decodeAndValidateEnvelope")
    /\ engineResult.envelope # Null
    /\ engineResult.envelope \in EncodedEnvelopes
    /\ engineResult.envelope.metadata # Null
    /\ engineResult.envelope.root.kind = "logical"
    /\ engineResult.envelope.root.span # Null
    /\ engineResult.envelope.root.right.span = Null

(***************************************************************************)
(* Properties of list values.                                              *)
(***************************************************************************)
\* The value is a list with an item that is itself a list.
HasNestedList(value) ==
    /\ value.kind = "list"
    /\ \E i \in 1..Len(value.items) : value.items[i].kind = "list"

\* Some comparison of the tree has a list nested inside its list.
RECURSIVE NestsList(_)
NestsList(node) ==
    CASE node.kind = "comparison" -> HasNestedList(node.value)
      [] node.kind = "logical" -> NestsList(node.left) \/ NestsList(node.right)
      [] node.kind = "not" -> NestsList(node.expression)

\* compile never succeeds for an envelope with a nested list.
NestedListNeverCompiles ==
    (EngineReturned("compile") /\ NestsList(request.ast.root)) =>
       ~engineResult.success

\* validateSemantics never returns valid for an envelope with a nested list.
NestedListNeverSemanticallyValid ==
    (EngineReturned("validateSemantics") /\ NestsList(request.ast.root)) =>
       ~engineResult.valid

\* compile has rejected an envelope with a nested list.
NestedListRejected ==
    /\ EngineReturned("compile")
    /\ NestsList(request.ast.root)
    /\ ~engineResult.success

(***************************************************************************)
(* C27: list items are scalar literals only: no operation accepts a list   *)
(* nested inside a list as valid; decodeAndValidateEnvelope,               *)
(* validateSemantics and compile each reject an envelope whose tree has a  *)
(* list item that is itself a list.                                        *)
(***************************************************************************)
C27_NoOperationAcceptsNestedList ==
    /\ NestedListNeverCompiles
    /\ NestedListNeverSemanticallyValid
    /\ (EngineReturned("decodeAndValidateEnvelope") /\ engineResult.envelope # Null
          /\ NestsList(engineResult.envelope.root)) =>
         ~engineResult.valid

(***************************************************************************)
(* Properties of the fold of a clause list.                                *)
(***************************************************************************)
\* Logical(op, Logical(op, ... Logical(op, t1, t2) ..., t(n-1)), tn), every
\* node with the given span; t1 for n = 1.
RECURSIVE LeftNested(_, _, _, _)
LeftNested(terms, n, operator, span) ==
    IF n = 1 THEN terms[1]
    ELSE [kind |-> "logical", operator |-> operator,
          left |-> LeftNested(terms, n - 1, operator, span),
          right |-> terms[n], span |-> span]

\* The logical nodes on the left spine of a node, the node included.
RECURSIVE SpineLength(_, _)
SpineLength(node, span) ==
    IF node.kind = "logical" /\ node.span = span
    THEN 1 + SpineLength(node.left, span)
    ELSE 0

\* The comparison under a clause of the form NotExpression(Primary(Comparison)).
PlainComparison(notExpr) == getChild(getChild(notExpr, "Primary"), "Comparison")

\* The clause list of the analysed query, when the query is one list of
\* plain comparisons: its node, its operator and the comparisons in source
\* order.
TopClauseList ==
    LET orNode == getChild(QueryExpression(parse(querySource)), "OrExpression")
        ands == getChildren(orNode, "AndExpression")
        nots == getChildren(ands[1], "NotExpression")
    IN  IF Len(ands) > 1
        THEN [node |-> orNode, operator |-> "OR",
              terms |-> [i \in 1..Len(ands) |->
                           PlainComparison(getChild(ands[i], "NotExpression"))]]
        ELSE [node |-> ands[1], operator |-> "AND",
              terms |-> [i \in 1..Len(nots) |-> PlainComparison(nots[i])]]

AnalysedClauseList == \E n \in 1..MaxTerms : querySource \in {SrcAnd(n), SrcOr(n)}

\* The last term of a clause list is returned and the list is folded.
FoldsClauseList ==
    /\ Returning("fold")
    /\ Head(kont).todo = <<>>
    /\ ReturnToClauseList

(***************************************************************************)
(* C28: a clause list of n >= 1 terms folds left-associatively into n - 1  *)
(* logical nodes: t1 for n = 1, Logical(op, fold(t1..t(n-1)), tn)          *)
(* otherwise, the terms in source order and every logical node of the      *)
(* fold with the span of the whole clause list.                            *)
(***************************************************************************)
C28_FoldsLeftAssociatively ==
    /\ [][FoldsClauseList =>
            LET terms == Append(Head(kont).terms, control)
                span == spanOf(Head(kont).node)
            IN  /\ control' = LeftNested(terms, Len(terms), Head(kont).operator, span)
                /\ Len(terms) = Len(getChildren(Head(kont).node,
                                                IF Head(kont).operator = "OR"
                                                THEN "AndExpression"
                                                ELSE "NotExpression"))]_vars
    /\ [](phase = "done" /\ AnalysedClauseList =>
            LET list == TopClauseList
                terms == [i \in 1..Len(list.terms) |->
                            buildComparison(list.terms[i], TextOfSource(querySource),
                                            languageSpec)]
            IN  /\ result.ast # NullAst
                /\ result.ast.root = LeftNested(terms, Len(terms), list.operator,
                                                spanOf(list.node))
                /\ SpineLength(result.ast.root, spanOf(list.node)) = Len(terms) - 1)

\* Three and more terms have been folded: the root's left operand is itself
\* a logical node of the fold and the last term is the root's right operand.
C28_Witness ==
    /\ phase = "done"
    /\ querySource = SrcOr(3)
    /\ result.ast # NullAst
    /\ result.ast.root.kind = "logical"
    /\ result.ast.root.operator = "OR"
    /\ result.ast.root.left.kind = "logical"
    /\ result.ast.root.left.span = result.ast.root.span
    /\ result.ast.root.right.kind = "comparison"
    /\ result.ast.root.right.value.value = 3
    /\ result.ast.root.left.left.value.value = 1

(***************************************************************************)
(* Properties of the macro call stack.                                     *)
(***************************************************************************)
\* The expansions in progress: the frames of expandMacroAlias among the
\* pending callers, innermost first.
MacroFrames == SelectSeq(kont, LAMBDA frame : frame.k = "macro")

\* The stack and the depth of the context are those of the expansions in
\* progress: one name per pending expansion, each pending expansion called
\* with the names of the expansions around it.
StackIsCurrentPath ==
    phase = "build" =>
       /\ Len(buildContext.macroStack) = Len(MacroFrames)
       /\ buildContext.macroDepth = Len(MacroFrames)
       /\ \A i \in 1..Len(MacroFrames) :
            MacroFrames[i].context.macroStack =
               SubSeq(buildContext.macroStack, 1, Len(MacroFrames) - i)

\* The names of the aliases called in a tree.
RECURSIVE NamesCalled(_, _)
NamesCalled(node, text) ==
    IF node.name = "MacroCall"
    THEN {textOf(getChild(node, "Identifier"), text)}
    ELSE UNION {NamesCalled(node.children[i], text) : i \in 1..Len(node.children)}

\* The aliases of the language spec analysed, by name.
AnalysedAliases ==
    IF languageSpec = Undefined THEN NoAliases
    ELSE [name \in {languageSpec.functions[i].name : i \in 1..Len(languageSpec.functions)} |->
            (CHOOSE alias \in Range(languageSpec.functions) : alias.name = name)]

CallsOfAlias(name) ==
    IF name \in DOMAIN AnalysedAliases
    THEN NamesCalled(parse(AnalysedAliases[name].expansion),
                     TextOfSource(AnalysedAliases[name].expansion))
    ELSE {}

\* The names reached from a set of names in at most k calls.
RECURSIVE ReachedFrom(_, _)
ReachedFrom(names, k) ==
    IF k = 0 THEN names
    ELSE ReachedFrom(names \cup UNION {CallsOfAlias(name) : name \in names}, k - 1)

\* Some alias the query reaches calls itself, directly or through others.
QueryReachesCycle ==
    LET n == Cardinality(DOMAIN AnalysedAliases)
        reached == ReachedFrom(NamesCalled(parse(querySource), TextOfSource(querySource)), n)
    IN  \E name \in reached : name \in ReachedFrom(CallsOfAlias(name), n)

\* The same alias is called twice in sibling positions of the query.
SiblingCalls == \E i \in 1..MaxChain : querySource = SrcCallAndCall(i, i)

(***************************************************************************)
(* C29: the macro call stack holds only the chain of expansions in         *)
(* progress on the current path and is not shared between sibling          *)
(* expansions: MACRO_EXPANSION_CYCLE is reported only when an alias the    *)
(* query reaches calls itself, never for an alias called several times in  *)
(* sibling positions or for aliases that expand to the same third alias,   *)
(* and a finished expansion leaves no name on the stack.                   *)
(***************************************************************************)
C29_StackFollowsCurrentPath ==
    /\ [](StackIsCurrentPath)
    /\ []((phase = "done" /\ FailsWith(result, "MACRO_EXPANSION_CYCLE"))
             => QueryReachesCycle)
    /\ [][ReturnToMacroCall => buildContext' = Head(kont).context]_vars

\* m1() AND m1() is analysed, m1 an alias of a comparison: both calls are
\* expanded.
C29_Witness ==
    /\ phase = "done"
    /\ querySource = SrcCallAndCall(1, 1)
    /\ ~QueryReachesCycle
    /\ result.ast # NullAst
    /\ result.ast.root.kind = "logical"
    /\ result.ast.root.left.kind = "comparison"
    /\ result.ast.root.right.kind = "comparison"
    /\ result.ast.root.left.span # result.ast.root.right.span

\* Aliases that expand to the same third alias are analysed to an ast.
SharedAliasExpanded ==
    /\ phase = "done"
    /\ languageSpec # Undefined
    /\ languageSpec.functions = Comb(3)
    /\ result.ast # NullAst

(***************************************************************************)
(* Properties of the syntax diagnostics.                                   *)
(***************************************************************************)
\* The ranges of the error nodes of a tree.
RECURSIVE ErrorRanges(_)
ErrorRanges(node) ==
    (IF node.name = ErrorNodeName THEN {Span(node.from, node.to)} ELSE {})
    \cup UNION {ErrorRanges(node.children[i]) : i \in 1..Len(node.children)}

\* The raw error ranges of the analysed text: its error nodes and the input
\* the parser left unparsed.
RawErrorRanges ==
    ErrorRanges(parse(querySource))
    \cup (IF parse(querySource).to < Len(TextOfSource(querySource))
          THEN {Span(parse(querySource).to, Len(TextOfSource(querySource)))}
          ELSE {})

Contains(d, range) == d.from <= range.from /\ range.to <= d.to

(***************************************************************************)
(* C30: the syntax diagnostics analyzeQuery returns for a text with syntax *)
(* errors are sorted by start offset and pairwise separated (each from is  *)
(* strictly greater than the previous to), each has from < to, and every   *)
(* raw error range is contained in one of them.                            *)
(***************************************************************************)
C30_SyntaxDiagnosticsSeparated ==
    (phase = "done" /\ RawErrorRanges # {}) =>
       LET ds == result.syntaxDiagnostics
       IN  /\ ds # <<>>
           /\ result.ast = NullAst
           /\ \A i \in 1..Len(ds) :
                /\ ds[i].from < ds[i].to
                /\ ds[i].source = "syntax"
                /\ ds[i].code \in {"SYNTAX_ERROR", "UNPARSED_TRAILING_INPUT"}
           /\ \A i \in 1..(Len(ds) - 1) :
                /\ ds[i].from <= ds[i + 1].from
                /\ ds[i].to < ds[i + 1].from
           /\ \A range \in RawErrorRanges : \E i \in 1..Len(ds) : Contains(ds[i], range)

\* Three diagnostics are returned for four error nodes: two of the nodes
\* were merged into one diagnostic.
C30_Witness ==
    /\ phase = "done"
    /\ Cardinality(RawErrorRanges) = 4
    /\ Len(result.syntaxDiagnostics) = 3
    /\ \E range1 \in RawErrorRanges, range2 \in RawErrorRanges :
         /\ range1 # range2
         /\ Contains(result.syntaxDiagnostics[3], range1)
         /\ Contains(result.syntaxDiagnostics[3], range2)

\* An error node and the unparsed input after it are returned as one
\* diagnostic.
TrailingMerged ==
    /\ phase = "done"
    /\ Cardinality(RawErrorRanges) = 2
    /\ Len(result.syntaxDiagnostics) = 1
    /\ result.syntaxDiagnostics[1].code = "SYNTAX_ERROR"
    /\ result.syntaxDiagnostics[1].to = Len(TextOfSource(querySource))

====
